---------------------------- MODULE Spec2Model ----------------------------
(***************************************************************************)
(* A model of the front end of cassh2rs: the lexer (src/parser/lexer.rs),  *)
(* the recursive-descent parser (src/parser/parser.rs) and the dependency  *)
(* resolver (src/resolver/dependency_detector.rs).                         *)
(*                                                                         *)
(* Text is a sequence of one-character strings (ASCII only, so that a      *)
(* character offset and a byte offset coincide).  Tokens and AST nodes are *)
(* records tagged with the name of the Rust variant they stand for.        *)
(***************************************************************************)
EXTENDS Integers, Sequences, FiniteSets, TLC

VARIABLES
    script,     \* the script text handed to the program, and how it was made
    lexer,      \* a Lexer driven directly through next_token
    tokens,     \* the results of the next_token calls made on lexer so far
    parser,     \* a ShellParser and the result of its parse
    resolver,   \* a DependencyResolver and the state of its resolve call
    classifier, \* a FileClassifier and the results of its classify calls
    detector    \* the TerminalAnalysis of a TerminalDetector::analyze call

vars == <<script, lexer, tokens, parser, resolver, classifier, detector>>

-----------------------------------------------------------------------------
(* Characters                                                              *)

NoChar == "None"

\* the backquote character, written by name: SANY cannot read one in a string
Backquote == "BACKQUOTE"

Lower ==
    {"a","b","c","d","e","f","g","h","i","j","k","l","m",
     "n","o","p","q","r","s","t","u","v","w","x","y","z"}

Upper ==
    {"A","B","C","D","E","F","G","H","I","J","K","L","M",
     "N","O","P","Q","R","S","T","U","V","W","X","Y","Z"}

Digit == {"0","1","2","3","4","5","6","7","8","9"}

IsWhitespace(ch) == ch \in {" ", "\t", "\n", "\r", "\f"}

IsNumeric(ch) == ch \in Digit

\* a letter outside ASCII (e with acute accent), one character of a text
EAcute == "E_ACUTE"

\* a character outside ASCII that is no letter (the euro sign)
Euro == "EURO"

\* char::is_alphabetic: the letters of Unicode, not only those of ASCII
IsAlphabetic(ch) == ch \in Lower \cup Upper \cup {EAcute}

WordChar == Lower \cup Upper \cup Digit \cup {"_", "-", ".", "/"}

-----------------------------------------------------------------------------
(* Lexer                                                                   *)

\* Lexer::new before its first advance
LexerFields(input) ==
    [input |-> input, position |-> 0, line |-> 1, column |-> 0]

\* Lexer.current_char: the position-th character of the input, None past it
current_char(lx) ==
    IF lx.position >= 1 /\ lx.position <= Len(lx.input)
    THEN lx.input[lx.position] ELSE NoChar

advance(lx) ==
    LET p  == lx.position + 1
        ch == IF p <= Len(lx.input) THEN lx.input[p] ELSE NoChar
    IN  [lx EXCEPT !.position = p,
                   !.line     = IF ch = "\n" THEN @ + 1 ELSE @,
                   !.column   = IF ch = NoChar THEN @
                                ELSE IF ch = "\n" THEN 0 ELSE @ + 1]

LexerNew(input) == advance(LexerFields(input))

\* Peekable::peek: the character after current_char
peek(lx) ==
    IF lx.position + 1 <= Len(lx.input) THEN lx.input[lx.position + 1] ELSE NoChar

RECURSIVE skip_whitespace(_)
skip_whitespace(lx) ==
    LET ch == current_char(lx)
    IN  IF ch # NoChar /\ IsWhitespace(ch) /\ ch # "\n"
        THEN skip_whitespace(advance(lx))
        ELSE lx

RECURSIVE skip_comment(_)
skip_comment(lx) ==
    LET ch == current_char(lx)
    IN  IF ch # NoChar /\ ch # "\n"
        THEN skip_comment(advance(lx))
        ELSE lx

\* read_word's loop, word being the characters pushed so far
RECURSIVE read_word_loop(_, _)
read_word_loop(lx, word) ==
    LET ch == current_char(lx)
    IN  IF ch \in WordChar
        THEN read_word_loop(advance(lx), Append(word, ch))
        ELSE [lx |-> lx, s |-> word]

read_word(lx) == read_word_loop(lx, <<>>)

QuoteTypeOf(quote_char) ==
    CASE quote_char = "'"  -> "Single"
      [] quote_char = "\"" -> "Double"
      [] quote_char = Backquote -> "Backtick"

\* read_string's loop; ok = FALSE is the "Unterminated string" error
RECURSIVE read_string_loop(_, _, _)
read_string_loop(lx, quote_char, string) ==
    LET \* the backslash arm: lx1 is the lexer after the backslash
        escape(lx1, escaped) ==
            IF escaped # NoChar
            THEN read_string_loop(advance(lx1), quote_char,
                                  string \o <<"\\", escaped>>)
            ELSE read_string_loop(lx1, quote_char, string)
        after_backslash(lx1) == escape(lx1, current_char(lx1))
        at(ch) ==
            IF ch = NoChar
            THEN [lx |-> lx, s |-> string, ok |-> FALSE]
            ELSE IF ch = quote_char
            THEN [lx |-> advance(lx), s |-> string, ok |-> TRUE]
            ELSE IF ch = "\\" /\ QuoteTypeOf(quote_char) # "Single"
            THEN after_backslash(advance(lx))
            ELSE read_string_loop(advance(lx), quote_char, Append(string, ch))
    IN  at(current_char(lx))

read_string(lx, quote_char) ==
    read_string_loop(advance(lx), quote_char, <<>>)

\* the escape table of read_ansi_string; bell, backspace and vertical tab
\* are written by name, they have no TLA+ string escape
AnsiEscape(escaped) ==
    CASE escaped = "n"  -> "\n"
      [] escaped = "t"  -> "\t"
      [] escaped = "r"  -> "\r"
      [] escaped = "b"  -> "BS"
      [] escaped = "f"  -> "\f"
      [] escaped = "a"  -> "BEL"
      [] escaped = "v"  -> "VT"
      [] OTHER          -> escaped

RECURSIVE read_ansi_string_loop(_, _)
read_ansi_string_loop(lx, string) ==
    LET escape(lx1, escaped) ==
            IF escaped # NoChar
            THEN read_ansi_string_loop(advance(lx1),
                                       Append(string, AnsiEscape(escaped)))
            ELSE read_ansi_string_loop(lx1, string)
        after_backslash(lx1) == escape(lx1, current_char(lx1))
        at(ch) ==
            IF ch = NoChar
            THEN [lx |-> lx, s |-> string, ok |-> FALSE]
            ELSE IF ch = "'"
            THEN [lx |-> advance(lx), s |-> string, ok |-> TRUE]
            ELSE IF ch = "\\"
            THEN after_backslash(advance(lx))
            ELSE read_ansi_string_loop(advance(lx), Append(string, ch))
    IN  at(current_char(lx))

\* read_ansi_string is entered with current_char on the opening quote (the
\* caller has consumed the dollar sign) and advances twice before its loop
AnsiSkip(lx) == advance(advance(lx))

read_ansi_string(lx) == read_ansi_string_loop(AnsiSkip(lx), <<>>)

Contains(s, ch) == \E i \in 1..Len(s) : s[i] = ch

RECURSIVE read_number_loop(_, _)
read_number_loop(lx, number) ==
    LET ch == current_char(lx)
    IN  IF ch # NoChar /\ (IsNumeric(ch) \/ (ch = "." /\ ~Contains(number, ".")))
        THEN read_number_loop(advance(lx), Append(number, ch))
        ELSE [lx |-> lx, s |-> number]

read_number(lx) == read_number_loop(lx, <<>>)

\* the keyword table of match_keyword: word -> Token variant
Keywords ==
    { <<<<"i","f">>, "If">>,
      <<<<"t","h","e","n">>, "Then">>,
      <<<<"e","l","s","e">>, "Else">>,
      <<<<"e","l","i","f">>, "Elif">>,
      <<<<"f","i">>, "Fi">>,
      <<<<"c","a","s","e">>, "Case">>,
      <<<<"e","s","a","c">>, "Esac">>,
      <<<<"f","o","r">>, "For">>,
      <<<<"i","n">>, "In">>,
      <<<<"d","o">>, "Do">>,
      <<<<"d","o","n","e">>, "Done">>,
      <<<<"w","h","i","l","e">>, "While">>,
      <<<<"u","n","t","i","l">>, "Until">>,
      <<<<"f","u","n","c","t","i","o","n">>, "Function">>,
      <<<<"r","e","t","u","r","n">>, "Return">>,
      <<<<"e","x","p","o","r","t">>, "Export">>,
      <<<<"l","o","c","a","l">>, "Local">>,
      <<<<"r","e","a","d","o","n","l","y">>, "Readonly">>,
      <<<<"d","e","c","l","a","r","e">>, "Declare">>,
      <<<<"t","y","p","e","s","e","t">>, "Typeset">>,
      <<<<"l","e","t">>, "Let">>,
      <<<<"s","e","l","e","c","t">>, "Select">>,
      <<<<"t","i","m","e">>, "Time">>,
      <<<<"e","c","h","o">>, "Echo">>,
      <<<<"p","r","i","n","t","f">>, "Printf">>,
      <<<<"r","e","a","d">>, "Read">>,
      <<<<"c","d">>, "Cd">>,
      <<<<"p","w","d">>, "Pwd">>,
      <<<<"e","x","i","t">>, "Exit">>,
      <<<<"s","o","u","r","c","e">>, "Source">>,
      <<<<"e","x","e","c">>, "Exec">>,
      <<<<"e","v","a","l">>, "Eval">>
    }

\* match_keyword: the variant for a keyword, "Word" for any other word
match_keyword(word) ==
    IF \E k \in Keywords : k[1] = word
    THEN (CHOOSE k \in Keywords : k[1] = word)[2]
    ELSE "Word"

\* Token values: t is the variant, s its String payload, q the QuoteType of a
\* String token or the RedirectOp of a Redirect token
Tok(t) == [t |-> t, s |-> <<>>, q |-> "-"]
TokS(t, s) == [t |-> t, s |-> s, q |-> "-"]
TokQ(t, s, q) == [t |-> t, s |-> s, q |-> q]

\* the result of next_token: Ok(tok) or Err, with the lexer as it is left
LexOk(lx, tok) == [lx |-> lx, tok |-> tok, ok |-> TRUE]
LexErr(lx) == [lx |-> lx, tok |-> Tok("Eof"), ok |-> FALSE]

\* a one-character operator optionally extended by a second character:
\* two is a set of <<second char, token>> pairs, single the fallback token
TwoChar(lx, two, single) ==
    LET second(lx1, ch) ==
            IF \E m \in two : m[1] = ch
            THEN LexOk(advance(lx1), (CHOOSE m \in two : m[1] = ch)[2])
            ELSE LexOk(lx1, single)
        after(lx1) == second(lx1, current_char(lx1))
    IN  after(advance(lx))

RECURSIVE next_token(_)
next_token(lx0) ==
    LET \* Ok(Token::String(..)) or the error of read_string / read_ansi_string
        string_token(r, quote_type) ==
            IF r.ok THEN LexOk(r.lx, TokQ("String", r.s, quote_type))
            ELSE LexErr(r.lx)
        number_token(r, prefix) == LexOk(r.lx, TokS("Number", prefix \o r.s))
        keyword_or_word(r, kw) ==
            IF kw # "Word" THEN LexOk(r.lx, Tok(kw))
            ELSE LexOk(r.lx, TokS("Word", r.s))
        word_token(r) == keyword_or_word(r, match_keyword(r.s))
        heredoc_token(r) == LexOk(r.lx, TokS("Heredoc", r.s))
        \* the arms entered after one advance: lx1 is the lexer after it
        dollar_paren(lx2) ==
            IF current_char(lx2) = "("
            THEN LexOk(advance(lx2), Tok("DollarDoubleParen"))
            ELSE LexOk(lx2, Tok("DollarParen"))
        dollar(lx1, c1) ==
            CASE c1 = "'" -> string_token(read_ansi_string(lx1), "Ansi")
              [] c1 = "{" -> LexOk(advance(lx1), Tok("DollarBrace"))
              [] c1 = "(" -> dollar_paren(advance(lx1))
              [] OTHER -> LexOk(lx1, Tok("Dollar"))
        less_less(lx2) ==
            IF current_char(lx2) = "<"
            THEN LexOk(advance(lx2), Tok("HereString"))
            ELSE heredoc_token(read_word(skip_whitespace(lx2)))
        less(lx1, c1) ==
            CASE c1 = "<" -> less_less(advance(lx1))
              [] c1 = ">" -> LexOk(advance(lx1), TokQ("Redirect", <<>>, "InOut"))
              [] c1 = "=" -> LexOk(advance(lx1), Tok("LessEqual"))
              [] OTHER -> LexOk(lx1, TokQ("Redirect", <<>>, "In"))
        dot(lx1) ==
            IF IsNumeric(current_char(lx1))
            THEN number_token(read_number(lx1), <<"0", ".">>)
            ELSE LexOk(lx1, Tok("Dot"))
        after_dollar(lx1) == dollar(lx1, current_char(lx1))
        after_less(lx1) == less(lx1, current_char(lx1))
        \* the match on current_char, lx being the lexer after skip_whitespace
        token(lx, ch) ==
            CASE ch = NoChar -> LexOk(lx, Tok("Eof"))
              [] ch = "\n" -> LexOk(advance(lx), Tok("Newline"))
              [] ch = "#" -> next_token(skip_comment(lx))
              [] ch \in {"'", "\"", Backquote} ->
                    string_token(read_string(lx, ch), QuoteTypeOf(ch))
              [] ch = "$" -> after_dollar(advance(lx))
              [] ch = "|" -> TwoChar(lx, {<<"|", Tok("Or")>>, <<"&", Tok("PipeErr")>>},
                                     Tok("Pipe"))
              [] ch = "&" -> TwoChar(lx, {<<"&", Tok("And")>>}, Tok("Background"))
              [] ch = ";" -> LexOk(advance(lx), Tok("Semicolon"))
              [] ch = "(" -> LexOk(advance(lx), Tok("LeftParen"))
              [] ch = ")" -> LexOk(advance(lx), Tok("RightParen"))
              [] ch = "{" -> LexOk(advance(lx), Tok("LeftBrace"))
              [] ch = "}" -> LexOk(advance(lx), Tok("RightBrace"))
              [] ch = "[" -> TwoChar(lx, {<<"[", Tok("DoubleLeftBracket")>>},
                                     Tok("LeftBracket"))
              [] ch = "]" -> TwoChar(lx, {<<"]", Tok("DoubleRightBracket")>>},
                                     Tok("RightBracket"))
              [] ch = ">" -> TwoChar(lx, {<<">", TokQ("Redirect", <<>>, "OutAppend")>>,
                                          <<"&", TokQ("Redirect", <<>>, "OutErr")>>,
                                          <<"=", Tok("GreaterEqual")>>},
                                     TokQ("Redirect", <<>>, "Out"))
              [] ch = "<" -> after_less(advance(lx))
              [] ch = "=" -> TwoChar(lx, {<<"=", Tok("Equal")>>}, Tok("Assign"))
              [] ch = "+" -> TwoChar(lx, {<<"=", Tok("PlusAssign")>>}, Tok("Plus"))
              [] ch = "-" -> LexOk(advance(lx), Tok("Minus"))
              [] ch = "*" -> LexOk(advance(lx), Tok("Star"))
              [] ch = "/" -> LexOk(advance(lx), Tok("Slash"))
              [] ch = "%" -> LexOk(advance(lx), Tok("Percent"))
              [] ch = "!" -> TwoChar(lx, {<<"=", Tok("NotEqual")>>}, Tok("Bang"))
              [] ch = "?" -> LexOk(advance(lx), Tok("Question"))
              [] ch = "~" -> LexOk(advance(lx), Tok("Tilde"))
              [] ch = "@" -> LexOk(advance(lx), Tok("AtSign"))
              [] ch = "." -> dot(advance(lx))
              [] IsNumeric(ch) -> number_token(read_number(lx), <<>>)
              [] IsAlphabetic(ch) \/ ch = "_" -> word_token(read_word(lx))
              [] OTHER -> LexOk(advance(lx), TokS("Word", <<ch>>))
        at(lx) == token(lx, current_char(lx))
    IN  at(skip_whitespace(lx0))


-----------------------------------------------------------------------------
(* AST nodes (src/parser/ast.rs)                                           *)

NoNode == [kind |-> "None"]

ScriptNode(statements) == [kind |-> "Script", statements |-> statements]

BlockNode(statements) == [kind |-> "Block", statements |-> statements]

CommandNode(name, args, background) ==
    [kind |-> "Command", name |-> name, args |-> args,
     redirections |-> <<>>, background |-> background]

PipelineNode(commands) == [kind |-> "Pipeline", commands |-> commands]

IfNode(condition, then_block, elif_blocks, else_block) ==
    [kind |-> "If", condition |-> condition, then_block |-> then_block,
     elif_blocks |-> elif_blocks, else_block |-> else_block]

LoopNode(kind, condition, body) ==
    [kind |-> kind, condition |-> condition, body |-> body]

ForNode(variable, items, body) ==
    [kind |-> "For", variable |-> variable, items |-> items, body |-> body]

FunctionNode(name, body) == [kind |-> "Function", name |-> name, body |-> body]

AssignmentNode(name, value) ==
    [kind |-> "Assignment", name |-> name, value |-> value,
     export |-> FALSE, readonly |-> FALSE, local |-> FALSE]

VariableNode(name) == [kind |-> "Variable", name |-> name]

CommandSubstitutionNode(inner) == [kind |-> "CommandSubstitution", inner |-> inner]

StringNode(content, string_type) ==
    [kind |-> "String", content |-> content, string_type |-> string_type]

\* Number(f64): the literal is kept as the text that parsed
NumberNode(text) == [kind |-> "Number", text |-> text]

ReturnNode(value) == [kind |-> "Return", value |-> value]

ExitNode(code) == [kind |-> "Exit", code |-> code]

SubshellNode(inner) == [kind |-> "Subshell", inner |-> inner]

\* the nodes a node owns directly, in source order
Children(node) ==
    CASE node.kind \in {"Script", "Block"} -> node.statements
      [] node.kind = "Command" -> node.args
      [] node.kind = "Pipeline" -> node.commands
      [] node.kind = "If" ->
            <<node.condition, node.then_block>>
            \o [i \in 1..(2 * Len(node.elif_blocks)) |->
                    node.elif_blocks[(i + 1) \div 2][2 - (i % 2)]]
            \o (IF node.else_block = NoNode THEN <<>> ELSE <<node.else_block>>)
      [] node.kind \in {"While", "Until"} -> <<node.condition, node.body>>
      [] node.kind = "For" -> node.items \o <<node.body>>
      [] node.kind = "Function" -> <<node.body>>
      [] node.kind = "Assignment" -> <<node.value>>
      [] node.kind \in {"CommandSubstitution", "Subshell"} -> <<node.inner>>
      [] node.kind = "Return" -> IF node.value = NoNode THEN <<>> ELSE <<node.value>>
      [] node.kind = "Exit" -> IF node.code = NoNode THEN <<>> ELSE <<node.code>>
      [] OTHER -> <<>>

-----------------------------------------------------------------------------
(* Parser (src/parser/parser.rs)                                           *)
(*                                                                         *)
(* A parser value ps holds the ShellParser fields lexer and current_token  *)
(* (the input is lexer.input), the outcome so far in status: "Ok", or the  *)
(* error a ? has propagated ("LexError", "ParseError"), or "Panic" for the *)
(* out-of-range slice -, the node the last sub-parser returned, and        *)
(* swallowed, the number of lexer errors dropped by a "let _ =".           *)
(* The lexer is deterministic, so the field results holds what its         *)
(* next_token calls return, in order, and calls counts the calls made.     *)

\* the Results of the successive next_token calls from lexer lx, up to the
\* first Eof; every later call returns that Eof again and leaves the lexer
RECURSIVE LexerResults(_)
LexerResults(lx) ==
    LET from(r) == IF r.ok /\ r.tok.t = "Eof" THEN <<r>>
                   ELSE <<r>> \o LexerResults(r.lx)
    IN  from(next_token(lx))

\* self.lexer.next_token() as the parser calls it
LexerNextToken(ps) ==
    ps.results[IF ps.calls < Len(ps.results) THEN ps.calls + 1 ELSE Len(ps.results)]

Bad(ps) == ps.status # "Ok"

Ret(ps, node) == [ps EXCEPT !.node = node]

Bail(ps) == [ps EXCEPT !.status = "ParseError", !.node = NoNode]

\* the ? operator: an error ends the function, a value goes on into F
Then(r, F(_)) == IF Bad(r) THEN r ELSE F(r)

\* ShellParser::advance: on a lexer error current_token keeps its value
ParserAdvance(ps) ==
    LET assign(r) ==
            IF r.ok
            THEN [ps EXCEPT !.lexer = r.lx, !.calls = @ + 1, !.current_token = r.tok]
            ELSE [ps EXCEPT !.lexer = r.lx, !.calls = @ + 1,
                            !.status = "LexError", !.node = NoNode]
    IN  assign(LexerNextToken(ps))

\* "let _ = self.advance();": the Result is dropped
AdvanceDropResult(ps) ==
    LET assign(r) ==
            IF r.ok
            THEN [ps EXCEPT !.lexer = r.lx, !.calls = @ + 1, !.current_token = r.tok]
            ELSE [ps EXCEPT !.lexer = r.lx, !.calls = @ + 1, !.swallowed = @ + 1]
    IN  assign(LexerNextToken(ps))

expect(ps, expected) ==
    IF ps.current_token.t # expected THEN Bail(ps) ELSE ParserAdvance(ps)

RECURSIVE skip_newlines(_)
skip_newlines(ps) ==
    IF ps.current_token.t = "Newline"
    THEN skip_newlines(AdvanceDropResult(ps))
    ELSE ps

RECURSIVE skip_terminators(_)
skip_terminators(ps) ==
    IF ps.current_token.t \in {"Semicolon", "Newline"}
    THEN skip_terminators(AdvanceDropResult(ps))
    ELSE ps

\* str::parse::<f64> on a Number token: digits with at most one point parse
ParsesAsF64(text) == Cardinality({i \in 1..Len(text) : text[i] = "."}) <= 1

StringTypeOf(quote_type) ==
    CASE quote_type = "Single" -> "SingleQuoted"
      [] quote_type = "Double" -> "DoubleQuoted"
      [] quote_type = "Ansi"   -> "AnsiC"

\* "self.advance()?; Ok(node)"
AdvanceWith(ps, node) == Then(ParserAdvance(ps), LAMBDA r : Ret(r, node))

parse_variable_or_expansion(ps) ==
    IF ps.current_token.t = "Word"
    THEN AdvanceWith(ps, VariableNode(ps.current_token.s))
    ELSE Bail(ps)

parse_word(ps) ==
    LET word(tok) ==
            CASE tok.t = "Word" -> AdvanceWith(ps, StringNode(tok.s, "Unquoted"))
              [] tok.t = "String" ->
                    IF tok.q = "Backtick"
                    THEN AdvanceWith(ps,
                            CommandSubstitutionNode(StringNode(tok.s, "Unquoted")))
                    ELSE AdvanceWith(ps, StringNode(tok.s, StringTypeOf(tok.q)))
              [] tok.t = "Number" ->
                    IF ParsesAsF64(tok.s)
                    THEN AdvanceWith(ps, NumberNode(tok.s))
                    ELSE Bail(ps)
              [] tok.t = "Dollar" ->
                    Then(ParserAdvance(ps), parse_variable_or_expansion)
              [] OTHER -> Bail(ps)
    IN  word(ps.current_token)

parse_assignment_or_word(ps) == parse_word(ps)

CommandEnd ==
    {"Pipe", "PipeErr", "Semicolon", "Newline", "Background", "And", "Or", "Eof"}

\* the argument loop of parse_command; returns the args in node
RECURSIVE parse_command_args(_, _)
parse_command_args(ps, args) ==
    IF ps.current_token.t \in CommandEnd
    THEN Ret(ps, args)
    ELSE IF ps.current_token.t = "Redirect"
    THEN Then(ParserAdvance(ps), LAMBDA r1 :
         Then(ParserAdvance(r1), LAMBDA r2 :
         parse_command_args(r2, args)))
    ELSE Then(parse_word(ps), LAMBDA r :
         parse_command_args(r, Append(args, r.node)))

parse_command(ps) ==
    IF ps.current_token.t # "Word" THEN Bail(ps)
    ELSE Then(ParserAdvance(ps), LAMBDA r1 :
         Then(parse_command_args(r1, <<>>), LAMBDA r2 :
         IF r2.current_token.t = "Background"
         THEN Then(ParserAdvance(r2), LAMBDA r3 :
              Ret(r3, CommandNode(ps.current_token.s, r2.node, TRUE)))
         ELSE Ret(r2, CommandNode(ps.current_token.s, r2.node, FALSE))))

\* the loop of parse_pipeline; returns the commands in node
RECURSIVE parse_pipeline_rest(_, _)
parse_pipeline_rest(ps, commands) ==
    IF ps.current_token.t \in {"Pipe", "PipeErr"}
    THEN Then(ParserAdvance(ps), LAMBDA r1 :
         Then(parse_command(skip_newlines(r1)), LAMBDA r2 :
         parse_pipeline_rest(r2, Append(commands, r2.node))))
    ELSE Ret(ps, commands)

\* parse_pipeline without its collapse: a Pipeline whatever the length
PipelineResultNoCollapse(commands) == PipelineNode(commands)

\* the collapse at the end of parse_pipeline
PipelineResult(commands) ==
    IF Len(commands) = 1 THEN commands[1] ELSE PipelineNode(commands)

parse_pipeline(ps) ==
    Then(parse_command(ps), LAMBDA r1 :
    Then(parse_pipeline_rest(r1, <<r1.node>>), LAMBDA r2 :
    Ret(r2, PipelineResult(r2.node))))

parse_condition(ps) == parse_pipeline(ps)

parse_assignment(ps) ==
    IF ps.current_token.t # "Word" THEN Bail(ps)
    ELSE Then(ParserAdvance(ps), LAMBDA r1 :
         Then(IF r1.current_token.t \in {"Assign", "PlusAssign"}
              THEN ParserAdvance(r1) ELSE Bail(r1), LAMBDA r2 :
         Then(parse_word(r2), LAMBDA r3 :
         Ret(r3, AssignmentNode(ps.current_token.s, r3.node)))))

\* the raw-text offset of the look-ahead: self.lexer.position, used as the
\* start of the slice self.input[position..]
LookaheadOffset(ps) == ps.lexer.position

\* the k-th character (k = 1, 2, 3) of the slice input[offset..]
SliceChar(ps, k) ==
    IF LookaheadOffset(ps) + k <= Len(ps.lexer.input)
    THEN ps.lexer.input[LookaheadOffset(ps) + k] ELSE NoChar

\* chars.next() == Some('=') || (chars.next() == Some('+') && chars.next() == Some('='))
LooksLikeAssignment(ps) ==
    \/ SliceChar(ps, 1) = "="
    \/ SliceChar(ps, 2) = "+" /\ SliceChar(ps, 3) = "="

parse_command_or_assignment(ps) ==
    IF ps.current_token.t = "Word" /\ LookaheadOffset(ps) > Len(ps.lexer.input)
    THEN [ps EXCEPT !.status = "Panic", !.node = NoNode]
    ELSE IF ps.current_token.t = "Word" /\ LooksLikeAssignment(ps)
    THEN parse_assignment(ps)
    ELSE parse_pipeline(ps)

RECURSIVE parse_statement(_), parse_block_until(_, _), parse_block_until_loop(_, _, _),
          parse_if(_), parse_elifs(_, _), parse_loop(_, _), parse_for(_),
          parse_function(_), parse_block(_), parse_subshell(_),
          parse_subshell_loop(_, _)

\* the loop of parse_block_until; returns the statements in node
parse_block_until_loop(ps, terminators, statements) ==
    IF ps.current_token.t \in terminators \/ ps.current_token.t = "Eof"
    THEN Ret(ps, statements)
    ELSE IF ps.current_token.t = "Newline"
    THEN Then(ParserAdvance(ps), LAMBDA r :
         parse_block_until_loop(r, terminators, statements))
    ELSE Then(parse_statement(ps), LAMBDA r :
         parse_block_until_loop(skip_terminators(r), terminators,
                                Append(statements, r.node)))

parse_block_until(ps, terminators) ==
    Then(parse_block_until_loop(ps, terminators, <<>>), LAMBDA r :
    Ret(r, BlockNode(r.node)))

\* the elif loop of parse_if; returns the (condition, block) pairs in node
parse_elifs(ps, elif_blocks) ==
    IF ps.current_token.t = "Elif"
    THEN Then(ParserAdvance(ps), LAMBDA r1 :
         Then(parse_condition(r1), LAMBDA r2 :
         Then(expect(r2, "Then"), LAMBDA r3 :
         Then(parse_block_until(skip_newlines(r3), {"Elif", "Else", "Fi"}), LAMBDA r4 :
         parse_elifs(r4, Append(elif_blocks, <<r2.node, r4.node>>))))))
    ELSE Ret(ps, elif_blocks)

parse_if(ps) ==
    Then(expect(ps, "If"), LAMBDA r1 :
    Then(parse_condition(r1), LAMBDA r2 :
    Then(expect(r2, "Then"), LAMBDA r3 :
    Then(parse_block_until(skip_newlines(r3), {"Elif", "Else", "Fi"}), LAMBDA r4 :
    Then(parse_elifs(r4, <<>>), LAMBDA r5 :
    Then(IF r5.current_token.t = "Else"
         THEN Then(ParserAdvance(r5), LAMBDA r6 :
              parse_block_until(skip_newlines(r6), {"Fi"}))
         ELSE Ret(r5, NoNode), LAMBDA r7 :
    Then(expect(r7, "Fi"), LAMBDA r8 :
    Ret(r8, IfNode(r2.node, r4.node, r5.node, r7.node)))))))))

\* parse_while and parse_until: kind is "While" or "Until"
parse_loop(ps, kind) ==
    Then(expect(ps, kind), LAMBDA r1 :
    Then(parse_condition(r1), LAMBDA r2 :
    Then(expect(r2, "Do"), LAMBDA r3 :
    Then(parse_block_until(skip_newlines(r3), {"Done"}), LAMBDA r4 :
    Then(expect(r4, "Done"), LAMBDA r5 :
    Ret(r5, LoopNode(kind, r2.node, r4.node)))))))

parse_while(ps) == parse_loop(ps, "While")

parse_until(ps) == parse_loop(ps, "Until")

\* the item loop of parse_for; returns the items in node
RECURSIVE parse_for_items(_, _)
parse_for_items(ps, items) ==
    IF ps.current_token.t \in {"Do", "Semicolon", "Newline"}
    THEN Ret(ps, items)
    ELSE Then(parse_word(ps), LAMBDA r :
         parse_for_items(r, Append(items, r.node)))

parse_for(ps) ==
    Then(expect(ps, "For"), LAMBDA r1 :
    Then(IF r1.current_token.t = "Word" THEN ParserAdvance(r1) ELSE Bail(r1),
         LAMBDA r2 :
    Then(expect(r2, "In"), LAMBDA r3 :
    Then(parse_for_items(r3, <<>>), LAMBDA r4 :
    Then(expect(skip_newlines(r4), "Do"), LAMBDA r5 :
    Then(parse_block_until(skip_newlines(r5), {"Done"}), LAMBDA r6 :
    Then(expect(r6, "Done"), LAMBDA r7 :
    Ret(r7, ForNode(r1.current_token.s, r4.node, r6.node)))))))))

parse_case(ps) == Bail(ps)

parse_function(ps) ==
    Then(expect(ps, "Function"), LAMBDA r1 :
    Then(IF r1.current_token.t = "Word" THEN ParserAdvance(r1) ELSE Bail(r1),
         LAMBDA r2 :
    Then(IF r2.current_token.t = "LeftParen"
         THEN Then(ParserAdvance(r2), LAMBDA r3 : expect(r3, "RightParen"))
         ELSE r2, LAMBDA r4 :
    Then(skip_newlines(r4), LAMBDA r5 :
    Then(IF r5.current_token.t = "LeftBrace" THEN parse_block(r5)
         ELSE parse_statement(r5), LAMBDA r6 :
    Ret(r6, FunctionNode(r1.current_token.s, r6.node)))))))

\* parse_export, parse_local, parse_readonly: the flag is set only on an
\* Assignment node
parse_flagged(ps, keyword, flag) ==
    Then(expect(ps, keyword), LAMBDA r1 :
    Then(parse_assignment_or_word(r1), LAMBDA r2 :
    IF r2.node.kind = "Assignment"
    THEN Ret(r2, [r2.node EXCEPT ![flag] = TRUE])
    ELSE r2))

parse_export(ps) == parse_flagged(ps, "Export", "export")

parse_local(ps) == parse_flagged(ps, "Local", "local")

parse_readonly(ps) == parse_flagged(ps, "Readonly", "readonly")

\* parse_return and parse_exit: an optional word after the keyword
parse_with_optional_word(ps, keyword) ==
    Then(expect(ps, keyword), LAMBDA r1 :
    IF r1.current_token.t \in {"Newline", "Semicolon", "Eof"}
    THEN Ret(r1, NoNode) ELSE parse_word(r1))

parse_return(ps) ==
    Then(parse_with_optional_word(ps, "Return"), LAMBDA r :
    Ret(r, ReturnNode(r.node)))

parse_exit(ps) ==
    Then(parse_with_optional_word(ps, "Exit"), LAMBDA r :
    Ret(r, ExitNode(r.node)))

parse_block(ps) ==
    Then(expect(ps, "LeftBrace"), LAMBDA r1 :
    Then(parse_block_until(skip_newlines(r1), {"RightBrace"}), LAMBDA r2 :
    Then(expect(r2, "RightBrace"), LAMBDA r3 :
    Ret(r3, r2.node))))

\* the loop of parse_subshell; returns the statements in node
parse_subshell_loop(ps, statements) ==
    IF ps.current_token.t \in {"RightParen", "Eof"}
    THEN Ret(ps, statements)
    ELSE Then(parse_statement(ps), LAMBDA r :
         parse_subshell_loop(skip_terminators(r), Append(statements, r.node)))

parse_subshell(ps) ==
    Then(expect(ps, "LeftParen"), LAMBDA r1 :
    Then(parse_subshell_loop(skip_newlines(r1), <<>>), LAMBDA r2 :
    Then(expect(r2, "RightParen"), LAMBDA r3 :
    Ret(r3, SubshellNode(BlockNode(r2.node))))))

\* the dispatch of parse_statement.  The arms for Token::Break and
\* Token::Continue name variants the Token type does not have; no token the
\* lexer returns selects them.
parse_statement(ps) ==
    LET t == ps.current_token.t
    IN  CASE t = "If"       -> parse_if(ps)
          [] t = "While"    -> parse_while(ps)
          [] t = "Until"    -> parse_until(ps)
          [] t = "For"      -> parse_for(ps)
          [] t = "Case"     -> parse_case(ps)
          [] t = "Function" -> parse_function(ps)
          [] t = "Export"   -> parse_export(ps)
          [] t = "Local"    -> parse_local(ps)
          [] t = "Readonly" -> parse_readonly(ps)
          [] t = "Return"   -> parse_return(ps)
          [] t = "Break"    -> AdvanceWith(ps, [kind |-> "Break"])
          [] t = "Continue" -> AdvanceWith(ps, [kind |-> "Continue"])
          [] t = "Exit"     -> parse_exit(ps)
          [] t = "LeftBrace" -> parse_block(ps)
          [] t = "LeftParen" -> parse_subshell(ps)
          [] OTHER          -> parse_command_or_assignment(ps)

\* the terminator loop at the end of a parse_script iteration
RECURSIVE script_terminators(_)
script_terminators(ps) ==
    IF ps.current_token.t \in {"Semicolon", "Newline"}
    THEN Then(ParserAdvance(ps), script_terminators)
    ELSE ps

\* the loop of parse_script; returns the statements in node
RECURSIVE parse_script_loop(_, _)
parse_script_loop(ps, statements) ==
    IF ps.current_token.t = "Eof"
    THEN Ret(ps, statements)
    ELSE IF ps.current_token.t = "Newline"
    THEN Then(ParserAdvance(ps), LAMBDA r : parse_script_loop(r, statements))
    ELSE Then(parse_statement(ps), LAMBDA r1 :
         Then(script_terminators(r1), LAMBDA r2 :
         parse_script_loop(r2, Append(statements, r1.node))))

parse_script(ps) ==
    Then(parse_script_loop(ps, <<>>), LAMBDA r : Ret(r, ScriptNode(r.node)))

-----------------------------------------------------------------------------
(* Header metadata (ShellParser::extract_metadata)                         *)

\* Option<String>
None == [some |-> FALSE, v |-> <<>>]
Some(v) == [some |-> TRUE, v |-> v]

\* ScriptMetadata::default()
DefaultMetadata ==
    [shebang |-> None, version |-> None, author |-> None, description |-> None,
     dependencies |-> <<>>, headers |-> <<>>]

StartsWith(s, prefix) ==
    /\ Len(prefix) <= Len(s)
    /\ \A i \in 1..Len(prefix) : s[i] = prefix[i]

\* str::strip_prefix, for a string known to start with the prefix
StripPrefix(s, prefix) == SubSeq(s, Len(prefix) + 1, Len(s))

\* str::find(ch): the 1-based index of the first ch, 0 when there is none
RECURSIVE FindFrom(_, _, _)
FindFrom(s, ch, i) ==
    IF i > Len(s) THEN 0
    ELSE IF s[i] = ch THEN i
    ELSE FindFrom(s, ch, i + 1)

Find(s, ch) == FindFrom(s, ch, 1)

RECURSIVE TrimStart(_)
TrimStart(s) ==
    IF s # <<>> /\ IsWhitespace(s[1]) THEN TrimStart(Tail(s)) ELSE s

RECURSIVE TrimEnd(_)
TrimEnd(s) ==
    IF s # <<>> /\ IsWhitespace(s[Len(s)])
    THEN TrimEnd(SubSeq(s, 1, Len(s) - 1)) ELSE s

Trim(s) == TrimEnd(TrimStart(s))

RECURSIVE TrimStartMatches(_, _)
TrimStartMatches(s, ch) ==
    IF s # <<>> /\ s[1] = ch THEN TrimStartMatches(Tail(s), ch) ELSE s

\* str::lines: the pieces between line feeds, without a last empty piece
RECURSIVE Lines(_)
Lines(s) ==
    IF s = <<>> THEN <<>>
    ELSE LET nl == Find(s, "\n")
         IN  IF nl = 0 THEN <<s>>
             ELSE <<SubSeq(s, 1, nl - 1)>> \o Lines(SubSeq(s, nl + 1, Len(s)))

TagVersion == <<"@","V","e","r","s","i","o","n",":">>
TagAuthor == <<"@","A","u","t","h","o","r",":">>
TagDescription == <<"@","D","e","s","c","r","i","p","t","i","o","n",":">>
TagDependency == <<"@","D","e","p","e","n","d","e","n","c","y",":">>

\* HashMap::insert
MapInsert(map, key, value) ==
    [k \in (DOMAIN map) \cup {key} |-> IF k = key THEN value ELSE map[k]]

\* the shebang step of extract_metadata
ExtractShebang(input) ==
    IF StartsWith(input, <<"#", "!">>) /\ Find(input, "\n") # 0
    THEN Some(SubSeq(input, 1, Find(input, "\n") - 1))
    ELSE None

\* metadata.dependencies.push(value)
PushDependencyFront(dependencies, value) == <<value>> \o dependencies

PushDependency(dependencies, value) == Append(dependencies, value)

\* the body of the header loop for one comment line
HeaderComment(metadata, comment) ==
    IF StartsWith(comment, TagVersion)
    THEN [metadata EXCEPT !.version = Some(Trim(StripPrefix(comment, TagVersion)))]
    ELSE IF StartsWith(comment, TagAuthor)
    THEN [metadata EXCEPT !.author = Some(Trim(StripPrefix(comment, TagAuthor)))]
    ELSE IF StartsWith(comment, TagDescription)
    THEN [metadata EXCEPT
            !.description = Some(Trim(StripPrefix(comment, TagDescription)))]
    ELSE IF StartsWith(comment, TagDependency)
    THEN [metadata EXCEPT
            !.dependencies =
                PushDependency(@, Trim(StripPrefix(comment, TagDependency)))]
    ELSE IF Contains(comment, ":")
    THEN LET at    == Find(comment, ":")
             key   == SubSeq(comment, 1, at - 1)
             value == SubSeq(comment, at + 1, Len(comment))
         IN  IF StartsWith(key, <<"@">>)
             THEN [metadata EXCEPT
                     !.headers = MapInsert(@, TrimStartMatches(key, "@"), Trim(value))]
             ELSE metadata
    ELSE metadata

\* the header loop, stopping at a blank line as at a statement
RECURSIVE HeaderLoopStopAtBlank(_, _)
HeaderLoopStopAtBlank(metadata, lines) ==
    IF lines = <<>> THEN metadata
    ELSE LET line == Trim(Head(lines))
         IN  IF StartsWith(line, <<"#">>)
             THEN HeaderLoopStopAtBlank(
                      HeaderComment(metadata, Trim(TrimStartMatches(line, "#"))),
                      Tail(lines))
             ELSE metadata

\* the header loop of extract_metadata over the remaining lines
RECURSIVE HeaderLoop(_, _)
HeaderLoop(metadata, lines) ==
    IF lines = <<>> THEN metadata
    ELSE LET line == Trim(Head(lines))
         IN  IF StartsWith(line, <<"#">>)
             THEN HeaderLoop(HeaderComment(metadata, Trim(TrimStartMatches(line, "#"))),
                             Tail(lines))
             ELSE IF line # <<>>
             THEN metadata
             ELSE HeaderLoop(metadata, Tail(lines))

extract_metadata(input) ==
    HeaderLoop([DefaultMetadata EXCEPT !.shebang = ExtractShebang(input)],
               Lines(input))

-----------------------------------------------------------------------------
(* ShellParser::new and ShellParser::parse as functions of the text        *)

NoToken == Tok("None")

\* ShellParser::new: the lexer is built and the first token read
ShellParserNew(input) ==
    LET first(results) ==
            [lexer |-> results[1].lx,
             results |-> results,
             calls |-> 1,
             current_token |-> IF results[1].ok THEN results[1].tok ELSE NoToken,
             status |-> IF results[1].ok THEN "Ok" ELSE "LexError",
             swallowed |-> 0,
             node |-> NoNode]
    IN  first(LexerResults(LexerNew(input)))

\* the Result of parse: Ok(AST {root, metadata}), or the error, or a panic
ParseResult(status, root, metadata) ==
    [status |-> status, root |-> root, metadata |-> metadata]

\* the Result of parse for the parser value r that parse_script leaves
ParseOutcome(r, metadata) ==
    IF Bad(r) THEN ParseResult(r.status, NoNode, DefaultMetadata)
    ELSE ParseResult("Ok", r.node, metadata)

Parse(ps) == ParseOutcome(parse_script(ps), extract_metadata(ps.lexer.input))

-----------------------------------------------------------------------------
(* Paths (std::path::PathBuf as the resolver uses it)                      *)

\* Path::is_absolute on Unix
IsAbsolute(path) == path # <<>> /\ path[1] = "/"

\* the pieces of s between the occurrences of ch
RECURSIVE Split(_, _)
Split(s, ch) ==
    LET cut(i) == IF i = 0 THEN <<s>>
                  ELSE <<SubSeq(s, 1, i - 1)>> \o Split(SubSeq(s, i + 1, Len(s)), ch)
    IN  cut(Find(s, ch))

\* the pieces from the i-th on that are components: an empty piece (a
\* repeated or trailing separator) is none, and "." only counts in front
RECURSIVE ComponentsFrom(_, _)
ComponentsFrom(pieces, i) ==
    IF i > Len(pieces) THEN <<>>
    ELSE IF pieces[i] = <<>> \/ (pieces[i] = <<".">> /\ i > 1)
         THEN ComponentsFrom(pieces, i + 1)
         ELSE <<pieces[i]>> \o ComponentsFrom(pieces, i + 1)

\* Path::components, the root directory as <<"/">>. PathBuf's Eq and Hash
\* compare components, so this is the key of the dependencies map and of the
\* visited_sources set.
Components(path) ==
    IF IsAbsolute(path) THEN <<<<"/">>>> \o ComponentsFrom(Split(path, "/"), 2)
    ELSE ComponentsFrom(Split(path, "/"), 1)

SamePath(p, q) == Components(p) = Components(q)

\* the sequences of seqs in a row, sep between them
RECURSIVE Join(_, _)
Join(seqs, sep) ==
    IF seqs = <<>> THEN <<>>
    ELSE IF Len(seqs) = 1 THEN seqs[1]
    ELSE seqs[1] \o sep \o Join(Tail(seqs), sep)

\* the path spelled by a list of components
FromComponents(comps) ==
    IF comps # <<>> /\ comps[1] = <<"/">> THEN <<"/">> \o Join(Tail(comps), <<"/">>)
    ELSE Join(comps, <<"/">>)

\* Path::parent: None for the root and for the empty path
PathParent(path) ==
    LET without_last(comps) ==
            IF comps = <<>> \/ comps[Len(comps)] = <<"/">> THEN None
            ELSE Some(FromComponents(SubSeq(comps, 1, Len(comps) - 1)))
    IN  without_last(Components(path))

\* PathBuf::join: an absolute path replaces the base, a separator is put in
\* when the base is not empty and does not end with one
PathJoin(base, path) ==
    IF IsAbsolute(path) THEN path
    ELSE IF base = <<>> THEN path
    ELSE IF base[Len(base)] = "/" THEN base \o path
    ELSE base \o <<"/">> \o path

EndsWith(s, suffix) ==
    /\ Len(suffix) <= Len(s)
    /\ SubSeq(s, Len(s) - Len(suffix) + 1, Len(s)) = suffix

-----------------------------------------------------------------------------
(* The resolver's patterns (src/resolver/dependency_detector.rs)           *)

\* [^/\s"'`()]
IsPathSegmentChar(ch) ==
    ~(IsWhitespace(ch) \/ ch \in {"/", "\"", "'", Backquote, "(", ")"})

\* [\s"'`(]
IsPathLead(ch) == IsWhitespace(ch) \/ ch \in {"\"", "'", Backquote, "("}

\* [^/\s"'`()]+ from index i, greedy: the index after it (i when it is empty)
RECURSIVE SegmentEnd(_, _)
SegmentEnd(s, i) ==
    IF i <= Len(s) /\ IsPathSegmentChar(s[i]) THEN SegmentEnd(s, i + 1) ELSE i

\* (?:/[^/\s"'`()]+)* from index i, greedy: the index after it
RECURSIVE SegmentsEnd(_, _)
SegmentsEnd(s, i) ==
    IF i <= Len(s) /\ s[i] = "/" /\ SegmentEnd(s, i + 1) > i + 1
    THEN SegmentsEnd(s, SegmentEnd(s, i + 1))
    ELSE i

\* /? from index i
OptionalSlashEnd(s, i) == IF i <= Len(s) /\ s[i] = "/" THEN i + 1 ELSE i

\* group 1 of FILE_PATH_REGEX at index i: the index after it, 0 for no match.
\* The three alternatives start differently and nothing follows the group,
\* so the greedy match is the match.
PathMatchEnd(s, i) ==
    IF i > Len(s) THEN 0
    ELSE IF s[i] = "/"
         THEN IF SegmentEnd(s, i + 1) > i + 1
              THEN OptionalSlashEnd(s, SegmentsEnd(s, SegmentEnd(s, i + 1)))
              ELSE 0
    ELSE IF s[i] = "." /\ i < Len(s) /\ s[i + 1] = "/"
         THEN IF SegmentEnd(s, i + 2) > i + 2
              THEN OptionalSlashEnd(s, SegmentsEnd(s, SegmentEnd(s, i + 2)))
              ELSE 0
    ELSE IF s[i] = "." /\ i < Len(s) /\ s[i + 1] = "."
         THEN IF SegmentsEnd(s, i + 2) > i + 2
              THEN OptionalSlashEnd(s, SegmentsEnd(s, i + 2))
              ELSE 0
    ELSE 0

\* FILE_PATH_REGEX.captures_iter: group 1 of the successive matches, the
\* search going on from index i. The group follows the start of the text or
\* one lead character.
RECURSIVE FilePathCaptures(_, _)
FilePathCaptures(s, i) ==
    IF i > Len(s) THEN <<>>
    ELSE IF i = 1 /\ PathMatchEnd(s, 1) # 0
         THEN <<SubSeq(s, 1, PathMatchEnd(s, 1) - 1)>>
              \o FilePathCaptures(s, PathMatchEnd(s, 1))
    ELSE IF IsPathLead(s[i]) /\ PathMatchEnd(s, i + 1) # 0
         THEN <<SubSeq(s, i + 1, PathMatchEnd(s, i + 1) - 1)>>
              \o FilePathCaptures(s, PathMatchEnd(s, i + 1))
    ELSE FilePathCaptures(s, i + 1)

\* [^\s<>"{}|\\^`\[\]]
IsUrlChar(ch) ==
    ~(IsWhitespace(ch)
      \/ ch \in {"<", ">", "\"", "{", "}", "|", "\\", "^", Backquote, "[", "]"})

RECURSIVE UrlCharsEnd(_, _)
UrlCharsEnd(s, i) ==
    IF i <= Len(s) /\ IsUrlChar(s[i]) THEN UrlCharsEnd(s, i + 1) ELSE i

StartsWithAt(s, i, prefix) ==
    /\ i + Len(prefix) - 1 <= Len(s)
    /\ SubSeq(s, i, i + Len(prefix) - 1) = prefix

\* URL_REGEX at index i: the index after the match, 0 for no match
UrlMatchEnd(s, i) ==
    LET rest(j) == IF StartsWithAt(s, j, <<":", "/", "/">>) /\ UrlCharsEnd(s, j + 3) > j + 3
                   THEN UrlCharsEnd(s, j + 3)
                   ELSE 0
    IN  IF ~StartsWithAt(s, i, <<"h", "t", "t", "p">>) THEN 0
        ELSE IF StartsWithAt(s, i + 4, <<"s">>) THEN rest(i + 5)
        ELSE rest(i + 4)

\* URL_REGEX.find_iter: the successive matches, the search going on from i
RECURSIVE UrlMatches(_, _)
UrlMatches(s, i) ==
    IF i > Len(s) THEN <<>>
    ELSE IF UrlMatchEnd(s, i) # 0
         THEN <<SubSeq(s, i, UrlMatchEnd(s, i) - 1)>> \o UrlMatches(s, UrlMatchEnd(s, i))
    ELSE UrlMatches(s, i + 1)

\* URL_REGEX.is_match
UrlIsMatch(s) == UrlMatches(s, 1) # <<>>

n_source == <<"s","o","u","r","c","e">>
n_cat == <<"c","a","t">>
n_less == <<"l","e","s","s">>
n_more == <<"m","o","r","e">>
n_head == <<"h","e","a","d">>
n_tail == <<"t","a","i","l">>
n_printf == <<"p","r","i","n","t","f">>
n_cp == <<"c","p">>
n_mv == <<"m","v">>
n_rm == <<"r","m">>
n_unlink == <<"u","n","l","i","n","k">>
n_mkdir == <<"m","k","d","i","r">>
n_curl == <<"c","u","r","l">>
n_wget == <<"w","g","e","t">>
n_git == <<"g","i","t">>
n_dot == <<".">>
n_true == <<"t", "r", "u", "e">>

\* the names is_shell_builtin matches
ShellBuiltins ==
    { <<"e","c","h","o">>, <<"p","r","i","n","t","f">>,
      <<"r","e","a","d">>, <<"c","d">>, <<"p","w","d">>,
      <<"e","x","i","t">>, <<"s","o","u","r","c","e">>, <<".">>,
      <<"e","x","e","c">>, <<"e","v","a","l">>,
      <<"e","x","p","o","r","t">>, <<"u","n","s","e","t">>,
      <<"s","e","t">>, <<"s","h","i","f","t">>,
      <<"r","e","t","u","r","n">>, <<"b","r","e","a","k">>,
      <<"c","o","n","t","i","n","u","e">>, <<"t","r","a","p">>,
      <<"w","a","i","t">>, <<"j","o","b","s">>, <<"f","g">>, <<"b","g">>,
      <<"k","i","l","l">>, <<"t","e","s","t">>, <<"[">>, <<"[","[">>,
      <<"t","r","u","e">>, <<"f","a","l","s","e">>, <<":">>,
      <<"a","l","i","a","s">>, <<"u","n","a","l","i","a","s">>,
      <<"t","y","p","e">>, <<"w","h","i","c","h">>,
      <<"c","o","m","m","a","n","d">>, <<"b","u","i","l","t","i","n">>,
      <<"d","e","c","l","a","r","e">>, <<"t","y","p","e","s","e","t">>,
      <<"l","o","c","a","l">>, <<"r","e","a","d","o","n","l","y">>,
      <<"l","e","t">>, <<"h","i","s","t","o","r","y">>,
      <<"g","e","t","o","p","t","s">>, <<"h","a","s","h">>,
      <<"h","e","l","p">>, <<"l","o","g","o","u","t">>,
      <<"t","i","m","e","s">>, <<"u","l","i","m","i","t">>,
      <<"u","m","a","s","k">> }

is_shell_builtin(command) == command \in ShellBuiltins

-----------------------------------------------------------------------------
(* Dependency resolver (src/resolver/dependency_detector.rs)               *)
(*                                                                         *)
(* A resolver value rs holds the DependencyResolver fields script_dir,     *)
(* dependencies, visited_sources and max_source_depth. dependencies is the *)
(* list of the map's values in the order of their insertion, the map's key *)
(* being Components(value.path); visited_sources holds Components of its   *)
(* paths. status is "Ok", or "Error" once a ? has propagated an Err, or    *)
(* "Panic". stack holds the analyze_ast_node calls that are still to be    *)
(* made, the next one first, each as the node and depth it is called with. *)
(* Four fields record the run and are no fields of the code: sightings,    *)
(* the add_dependency calls; reads, the paths given to read_to_string;     *)
(* walks, the source paths whose root was handed to analyze_ast_node; and  *)
(* skipped, the source commands that found their path visited.             *)

max_source_depth == 15

\* FileUsage::default(); the commands list is never filled and left out
DefaultUsage ==
    [read_count |-> 0, write_count |-> 0, append_count |-> 0,
     in_loop |-> FALSE, in_condition |-> FALSE,
     is_sourced |-> FALSE, is_monitored |-> FALSE]

Dependency(path, dep_type, usage) ==
    [path |-> path, dep_type |-> dep_type, usage |-> usage, line_numbers |-> <<>>]

Frame(node, depth) == [node |-> node, depth |-> depth]

\* DependencyResolver::new
DependencyResolverNew(script_path) ==
    [script_dir |-> IF PathParent(script_path).some THEN PathParent(script_path).v
                    ELSE <<".">>,
     dependencies |-> <<>>,
     visited_sources |-> {},
     max_source_depth |-> max_source_depth,
     status |-> "Ok",
     stack |-> <<>>,
     sightings |-> <<>>,
     reads |-> <<>>,
     walks |-> <<>>,
     skipped |-> 0]

\* the merge of a later sighting's usage into the entry's
MergeUsageKeepLast(old, new) == new

MergeUsage(old, new) ==
    [old EXCEPT !.read_count = @ + new.read_count,
                !.write_count = @ + new.write_count,
                !.append_count = @ + new.append_count,
                !.in_loop = @ \/ new.in_loop,
                !.in_condition = @ \/ new.in_condition,
                !.is_sourced = @ \/ new.is_sourced,
                !.is_monitored = @ \/ new.is_monitored]

\* the position of the entry of path in dependencies, 0 when it has none
EntryIndex(dependencies, path) ==
    IF \E i \in DOMAIN dependencies : SamePath(dependencies[i].path, path)
    THEN CHOOSE i \in DOMAIN dependencies : SamePath(dependencies[i].path, path)
    ELSE 0

\* every call passes vec![] as line_numbers
add_dependency(rs, path, dep_type, usage) ==
    LET entry(i) ==
            IF i = 0
            THEN Append(rs.dependencies, Dependency(path, dep_type, usage))
            ELSE [rs.dependencies EXCEPT ![i].usage = MergeUsage(@, usage)]
    IN  [rs EXCEPT !.dependencies = entry(EntryIndex(rs.dependencies, path)),
                   !.sightings = Append(@, [path |-> path, usage |-> usage])]

resolve_path(rs, path) == PathJoin(rs.script_dir, path)

add_file_dependency(rs, path, usage) ==
    add_dependency(rs, resolve_path(rs, path),
                   IF \/ EndsWith(path, <<".", "c", "o", "n", "f">>)
                      \/ EndsWith(path, <<".", "c", "o", "n", "f", "i", "g">>)
                   THEN "ConfigFile" ELSE "DataFile",
                   usage)

\* the loop of analyze_string_content over the captured paths
RECURSIVE AddCapturedPaths(_, _)
AddCapturedPaths(rs, paths) ==
    IF paths = <<>> THEN rs
    ELSE IF /\ Contains(Head(paths), "/")
            /\ ~Contains(Head(paths), "*")
            /\ ~Contains(Head(paths), "?")
         THEN AddCapturedPaths(add_file_dependency(rs, Head(paths), DefaultUsage),
                               Tail(paths))
    ELSE AddCapturedPaths(rs, Tail(paths))

\* the loop of analyze_string_content over the URLs found
RECURSIVE AddUrls(_, _)
AddUrls(rs, urls) ==
    IF urls = <<>> THEN rs
    ELSE AddUrls(add_dependency(rs, Head(urls), "NetworkResource", DefaultUsage),
                 Tail(urls))

analyze_string_content(rs, content) ==
    AddUrls(AddCapturedPaths(rs, FilePathCaptures(content, 1)), UrlMatches(content, 1))

RECURSIVE analyze_network_command(_, _)
analyze_network_command(rs, args) ==
    IF args = <<>> THEN rs
    ELSE IF Head(args).kind = "String" /\ UrlIsMatch(Head(args).content)
         THEN analyze_network_command(
                  add_dependency(rs, Head(args).content, "NetworkResource", DefaultUsage),
                  Tail(args))
    ELSE analyze_network_command(rs, Tail(args))

\* the String arguments among args, each added as a file with the usage
RECURSIVE AddFileArgs(_, _, _)
AddFileArgs(rs, args, usage) ==
    IF args = <<>> THEN rs
    ELSE IF Head(args).kind = "String"
         THEN AddFileArgs(add_file_dependency(rs, Head(args).content, usage),
                          Tail(args), usage)
    ELSE AddFileArgs(rs, Tail(args), usage)

\* the mkdir arm: the path is not resolved
RECURSIVE AddDirectoryArgs(_, _)
AddDirectoryArgs(rs, args) ==
    IF args = <<>> THEN rs
    ELSE IF Head(args).kind = "String"
         THEN AddDirectoryArgs(
                  add_dependency(rs, Head(args).content, "Directory", DefaultUsage),
                  Tail(args))
    ELSE AddDirectoryArgs(rs, Tail(args))

\* the files of the run: Components of a path to what is there
\* (exists, readable, content)
Files == script.parts[2]

AbsentFile == [exists |-> FALSE, readable |-> FALSE, content |-> <<>>]

FileAt(path) ==
    IF Components(path) \in DOMAIN Files THEN Files[Components(path)] ELSE AbsentFile

\* ShellParser::new(content, dialect) and then parse; no dialect changes
\* what the lexer and the parser do
ParseText(content) ==
    ParseOutcome(Then(ShellParserNew(content), parse_script), extract_metadata(content))

\* the check "Avoid circular dependencies" of handle_source_command
NeverVisited(rs, source_path) == FALSE

AlreadyVisited(rs, source_path) == Components(source_path) \in rs.visited_sources

\* the analyze_ast_node call on the sourced root is the next call made
handle_source_command(rs, path, depth) ==
    LET source_path == resolve_path(rs, path)
        walk(r, result) ==
            IF result.status = "Panic" THEN [r EXCEPT !.status = "Panic"]
            ELSE IF result.status = "Ok"
                 THEN [r EXCEPT !.stack = <<Frame(result.root, depth + 1)>> \o @,
                                !.walks = Append(@, source_path)]
            ELSE r
        read(r, file) ==
            IF ~file.exists THEN r
            ELSE IF ~file.readable
                 THEN [r EXCEPT !.reads = Append(@, source_path), !.status = "Error"]
            ELSE walk([r EXCEPT !.reads = Append(@, source_path)],
                      ParseText(file.content))
    IN  IF AlreadyVisited(rs, source_path)
        THEN [rs EXCEPT !.skipped = @ + 1]
        ELSE read(add_dependency(
                      [rs EXCEPT !.visited_sources = @ \cup {Components(source_path)}],
                      source_path, "SourceFile",
                      [DefaultUsage EXCEPT !.is_sourced = TRUE]),
                  FileAt(source_path))

\* the calls analyze_ast_node(node, depth) for the nodes, put in front
PushCalls(rs, nodes, depth) ==
    [rs EXCEPT !.stack = [i \in DOMAIN nodes |-> Frame(nodes[i], depth)] \o @]

\* The calls for the arguments come last in the code; they are put on the
\* stack first, so that they are made after the call on a sourced root.
analyze_command(rs, name, args, depth) ==
    LET external(r) ==
            IF ~is_shell_builtin(name)
            THEN add_dependency(r, name, "BinaryCommand", DefaultUsage)
            ELSE r
        reading ==
            [DefaultUsage EXCEPT
                !.read_count = @ + 1,
                !.is_monitored =
                    /\ name = n_tail
                    /\ \E i \in DOMAIN args :
                          args[i].kind = "String" /\ args[i].content = <<"-", "f">>]
        special(r) ==
            CASE name \in {n_source, n_dot} ->
                    IF args # <<>> /\ args[1].kind = "String"
                    THEN handle_source_command(r, args[1].content, depth)
                    ELSE r
              [] name \in {n_cat, n_less, n_more, n_head, n_tail} ->
                    AddFileArgs(r, args, reading)
              [] name \in {n_cp, n_mv} /\ Len(args) >= 2 ->
                    AddFileArgs(r, SubSeq(args, 1, Len(args) - 1),
                                [DefaultUsage EXCEPT !.read_count = @ + 1])
              [] name \in {n_rm, n_unlink} ->
                    AddFileArgs(r, args, [DefaultUsage EXCEPT !.write_count = @ + 1])
              [] name = n_mkdir -> AddDirectoryArgs(r, args)
              [] name \in {n_curl, n_wget} -> analyze_network_command(r, args)
              [] name = n_git ->
                    add_dependency(r, n_git, "BinaryCommand", DefaultUsage)
              [] OTHER -> r
    IN  special(external(PushCalls(rs, args, depth)))

\* the nodes analyze_ast_node calls itself on, in order
WalkedChildren(node) ==
    IF node.kind \in {"Script", "Block", "Pipeline", "If", "While", "Until", "For",
                      "Function", "CommandSubstitution", "Subshell"}
    THEN Children(node)
    ELSE <<>>

\* one call of analyze_ast_node, the calls it makes left on the stack
analyze_ast_node(rs, node, depth) ==
    IF depth > rs.max_source_depth THEN [rs EXCEPT !.status = "Error"]
    ELSE CASE node.kind = "Command" ->
                analyze_command(rs, node.name, node.args, depth)
           [] node.kind = "String" -> analyze_string_content(rs, node.content)
           [] OTHER -> PushCalls(rs, WalkedChildren(node), depth)

\* the loop of resolve over ast.metadata.dependencies
RECURSIVE AddMetadataDependencies(_, _)
AddMetadataDependencies(rs, names) ==
    IF names = <<>> THEN rs
    ELSE AddMetadataDependencies(
             add_dependency(rs, Head(names), "BinaryCommand", DefaultUsage),
             Tail(names))

-----------------------------------------------------------------------------
(* Script texts                                                            *)

\* words of a simple command
MaxWords == 3
\* commands of a pipeline
MaxPipe == 3
\* fragments of a free-form text
MaxFrags == 3
\* @Dependency lines of a header
MaxDeps == 2
\* nesting depth of the balanced constructs
MaxNest == 1

SeqsUpTo(S, n) == UNION {[1..k -> S] : k \in 0..n}

RECURSIVE Concat(_)
Concat(seqs) == IF seqs = <<>> THEN <<>> ELSE Head(seqs) \o Concat(Tail(seqs))

SP == <<" ">>
NL == <<"\n">>

w_echo == <<"e","c","h","o">>
w_ls == <<"l","s">>
w_hello == <<"h","e","l","l","o">>
w_world == <<"w","o","r","l","d">>
w_export == <<"e","x","p","o","r","t">>
w_local == <<"l","o","c","a","l">>
w_readonly == <<"r","e","a","d","o","n","l","y">>

IsKeyword(word) == match_keyword(word) # "Word"

\* words a command line may start with, and words it may go on with
CommandWords == {<<"a">>, w_ls, w_echo}
ArgWords == {<<"b">>, w_hello, w_world}

Script(form, parts, text) == [form |-> form, parts |-> parts, text |-> text]

\* a simple command: a command word, then argument words, one space apart
CommandScripts ==
    { Script("command", <<c>> \o args, Join(<<c>> \o args, SP) \o tail) :
        c \in CommandWords, args \in SeqsUpTo(ArgWords, MaxWords - 1),
        tail \in {<<>>, NL} }

\* NAME=value
AssignmentScripts ==
    { Script("assignment", <<name, value>>, name \o <<"=">> \o value \o tail) :
        name \in {<<"a">>, <<"N","A","M","E">>}, value \in ArgWords,
        tail \in {<<>>, NL} }

\* export NAME=value, local NAME=value, readonly NAME=value, alone or after
\* a first line NAME=value
FlaggedScripts ==
    { Script("flagged", <<kw, name, value, first>>,
             first \o kw \o SP \o name \o <<"=">> \o value \o tail) :
        kw \in {w_export, w_local, w_readonly},
        name \in {<<"a">>, <<"P","A","T","H">>}, value \in ArgWords,
        first \in {<<>>, <<"N","=","v","\n">>}, tail \in {<<>>, NL} }

\* commands joined by a pipe operator; parts are the commands, each a
\* sequence of words
PipeCommands == {<<<<"a">>>>, <<<<"b">>>>, <<<<"c">>, <<"x">>>>}

PipelineScripts ==
    { Script("pipeline", cmds,
             Join([i \in 1..Len(cmds) |-> Join(cmds[i], SP)], sep) \o tail) :
        cmds \in SeqsUpTo(PipeCommands, MaxPipe) \ {<<>>},
        sep \in {<<"|">>, <<" ","|"," ">>, <<"|","&">>, <<" ","|","\n">>},
        tail \in {<<>>, NL} }

\* Balanced constructs.  A construct is [kind, text]; its condition is the
\* command a, its body a statement of the next smaller depth, the parts of a
\* construct are separated by "; " or by a line feed.
t_if == <<"i","f"," ","a">>
t_then == <<"t","h","e","n"," ">>
t_else == <<"e","l","s","e"," ","c">>
t_fi == <<"f","i">>
t_while == <<"w","h","i","l","e"," ","a">>
t_do == <<"d","o"," ">>
t_done == <<"d","o","n","e">>
t_for == <<"f","o","r"," ","i"," ","i","n"," ","1"," ","2"," ","3">>

Separators == {<<";", " ">>, NL}

Construct(kind, text) == [kind |-> kind, text |-> text]

ConstructsOver(bodies) ==
    UNION { { Construct("If", t_if \o sep \o t_then \o b \o sep \o t_fi),
              Construct("If", t_if \o sep \o t_then \o b \o sep \o t_else
                              \o sep \o t_fi),
              Construct("While", t_while \o sep \o t_do \o b \o sep \o t_done),
              Construct("For", t_for \o sep \o t_do \o b \o sep \o t_done),
              Construct("Block", <<"{", " ">> \o b \o sep \o <<"}">>),
              Construct("Subshell", <<"(", " ">> \o b \o <<" ", ")">>) } :
            b \in bodies, sep \in Separators }

RECURSIVE ConstructsOfDepth(_)
ConstructsOfDepth(d) ==
    IF d = 0 THEN ConstructsOver({<<"b">>})
    ELSE LET inner == ConstructsOfDepth(d - 1)
         IN  inner \cup ConstructsOver({c.text : c \in inner})

\* a balanced construct, alone or followed by the sibling statement d
WellFormedScripts ==
    { Script("wellformed", <<c.kind, sibling>>,
             c.text \o (IF sibling THEN sep \o <<"d">> ELSE <<>>) \o NL) :
        c \in ConstructsOfDepth(MaxNest - 1), sibling \in BOOLEAN,
        sep \in Separators }

\* a string left open at the end of the text, after each kind of context
OpenStrings ==
    { <<"'", "x">>, <<"\"", "x">>, <<Backquote, "x">>, <<"$", "'", "x", "y">> }

Contexts ==
    { <<"top", <<>>>>,
      <<"top", <<"a", "\n">>>>,
      <<"top", <<"a", " ">>>>,
      <<"block", <<"{", "\n">>>>,
      <<"block", <<"{", " ", "a", "\n">>>>,
      <<"block", <<"{", " ", "a", " ">>>>,
      <<"subshell", <<"(", "\n">>>>,
      <<"pipe", <<"a", " ", "|", "\n">>>>,
      <<"pipe", <<"a", " ", "|", " ">>>>,
      <<"function", <<"f","u","n","c","t","i","o","n"," ","f","\n">>>>,
      <<"function", <<"f","u","n","c","t","i","o","n"," ","f"," ">>>> }

UnterminatedScripts ==
    { Script("unterminated", <<c[1]>>, c[2] \o o) : c \in Contexts, o \in OpenStrings }

\* A header: an optional shebang line, then one @Version, one @Author and
\* one @Description line and up to MaxDeps @Dependency lines in any order,
\* then a blank line and a command.  parts = <<version, author,
\* description, dependencies>>, the values as written without padding.
v_version == <<"1", ".", "0">>
v_author == <<"T", " ", "U">>
v_description == <<"d">>
DepNames == {<<"j", "q">>, <<"c", "u", "r", "l">>}

HeaderLine(tag, value, pad) == <<"#", " ">> \o tag \o pad \o value \o pad \o NL

\* the orders of the three single tags and the dependency lines: a sequence
\* of line kinds holding "V", "A" and "D" once each and "X" deps times
HeaderOrders(deps) ==
    { o \in [1..(3 + deps) -> {"V", "A", "D", "X"}] :
        \A k \in {"V", "A", "D"} : Cardinality({i \in DOMAIN o : o[i] = k}) = 1 }

\* the index among the dependency lines of the line at position i
DepIndex(order, i) == Cardinality({j \in 1..i : order[j] = "X"})

HeaderText(order, deps, pad) ==
    Concat([i \in DOMAIN order |->
        CASE order[i] = "V" -> HeaderLine(TagVersion, v_version, pad)
          [] order[i] = "A" -> HeaderLine(TagAuthor, v_author, pad)
          [] order[i] = "D" -> HeaderLine(TagDescription, v_description, pad)
          [] order[i] = "X" -> HeaderLine(TagDependency, deps[DepIndex(order, i)], pad)])

HeaderScripts ==
    UNION { { Script("header", <<v_version, v_author, v_description, deps>>,
                     shebang \o HeaderText(order, deps, pad) \o NL \o w_ls \o NL) :
                order \in HeaderOrders(Len(deps)),
                pad \in {<<" ">>, <<" ", " ">>},
                shebang \in {<<>>, <<"#", "!", "/", "s", "h", "\n">>} } :
            deps \in SeqsUpTo(DepNames, MaxDeps) }

\* free-form text: up to MaxFrags fragments
Fragments ==
    { <<"a">>, SP, NL, <<"|">>, <<"=">>, <<";">>, <<"'">>, <<"(">>, <<")">>,
      <<"&">>, <<"1">> }

\* a name, an assignment operator and a value, with or without a blank on
\* either side of the operator; parts = <<name, before, op, after, value>>
SpacedScripts ==
    { Script("spaced", <<name, before, op, after, value>>,
             name \o before \o op \o after \o value \o NL) :
        name \in {<<"N">>}, before \in {<<>>, SP}, op \in {<<"=">>, <<"+", "=">>},
        after \in {<<>>, SP}, value \in {<<"v">>} }

\* the tag comments of a header, by the field they set
LateTags ==
    [Version     |-> <<"#", " ", "@", "V", "e", "r", "s", "i", "o", "n", ":", " ", "2">>,
     Author      |-> <<"#", " ", "@", "A", "u", "t", "h", "o", "r", ":", " ", "a">>,
     Description |-> <<"#", " ", "@", "D", "e", "s", "c", "r", "i", "p", "t", "i", "o", "n", ":", " ", "d">>,
     Dependency  |-> <<"#", " ", "@", "D", "e", "p", "e", "n", "d", "e", "n", "c", "y", ":", " ", "g", "i", "t">>,
     Key         |-> <<"#", " ", "@", "K", "e", "y", ":", " ", "v">>]

\* what may stand between the head of the text and a tag comment
LateGaps ==
    [none      |-> <<>>,
     blank     |-> NL,
     spaces    |-> SP \o NL,
     statement |-> w_ls \o NL,
     both      |-> NL \o w_ls \o NL]

\* an optional first comment line with a version, a gap, a tag comment and a
\* statement; parts = <<whether the first line is there, gap, tag>>
LateScripts ==
    { Script("late", <<lead, gap, tag>>,
             (IF lead THEN <<"#", " ", "@", "V", "e", "r", "s", "i", "o", "n", ":", " ", "1", "\n">> ELSE <<>>)
                 \o LateGaps[gap] \o LateTags[tag] \o NL \o w_ls \o NL) :
        lead \in BOOLEAN, gap \in DOMAIN LateGaps, tag \in DOMAIN LateTags }

\* first lines with and without a leading #!
FirstLines ==
    { <<"#", "!", "/", "b", "i", "n", "/", "s", "h">>, <<"#", "!">>, <<"#", "!", " ", "/", "b", "i", "n", "/", "s", "h", " ", "-", "e">>, <<"#", " ", "!", "/", "b", "i", "n", "/", "s", "h">>, <<" ", "#", "!", "/", "b", "i", "n", "/", "s", "h">>, w_ls }

\* a first line, alone or ended by a line feed or followed by a statement;
\* parts = <<first line, whether a line feed ends it, rest of the text>>
ShebangScripts ==
    UNION { { Script("shebang", <<first, ended, rest>>,
                     first \o (IF ended THEN NL ELSE <<>>) \o rest) :
                first \in FirstLines,
                rest \in IF ended THEN {<<>>, w_ls \o NL} ELSE {<<>>} } :
            ended \in BOOLEAN }

\* the words of the control statements, by the node each is to parse to
ControlWords ==
    [Break    |-> <<"b", "r", "e", "a", "k">>,
     Continue |-> <<"c", "o", "n", "t", "i", "n", "u", "e">>,
     Return   |-> <<"r", "e", "t", "u", "r", "n">>,
     Exit     |-> <<"e", "x", "i", "t">>]

\* one control statement on a line; parts = <<kind of node>>
ControlScripts ==
    { Script("control", <<kind>>, ControlWords[kind] \o NL) : kind \in DOMAIN ControlWords }

RawScripts ==
    { Script("raw", fs, Concat(fs)) : fs \in SeqsUpTo(Fragments, MaxFrags) }

\* the script texts the parser is run on
IsParserScript(sc) ==
    \/ sc \in CommandScripts
    \/ sc \in AssignmentScripts
    \/ sc \in FlaggedScripts
    \/ sc \in PipelineScripts
    \/ sc \in WellFormedScripts
    \/ sc \in UnterminatedScripts
    \/ sc \in HeaderScripts
    \/ sc \in RawScripts
    \/ sc \in SpacedScripts
    \/ sc \in LateScripts
    \/ sc \in ShebangScripts
    \/ sc \in ControlScripts

-----------------------------------------------------------------------------
(* The parser as a state machine: ShellParser::new, then parse             *)

IdleLexer == [status |-> "Idle"]
IdleParser == [phase |-> "Idle"]
IdleResolver == [phase |-> "Idle"]
IdleClassifier == [phase |-> "Idle"]
IdleDetector == [phase |-> "Idle"]

InitParser ==
    /\ IsParserScript(script)
    /\ parser = [phase |-> "Start"]
    /\ lexer = IdleLexer
    /\ tokens = <<>>
    /\ resolver = IdleResolver
    /\ classifier = IdleClassifier
    /\ detector = IdleDetector

\* ShellParser::new(input, dialect)
New ==
    /\ parser.phase = "Start"
    /\ LET ps == ShellParserNew(script.text)
       IN  parser' = IF Bad(ps)
                     THEN [phase |-> "Done", swallowed |-> 0,
                           result |-> ParseResult(ps.status, NoNode, DefaultMetadata)]
                     ELSE [phase |-> "Created", ps |-> ps]
    /\ UNCHANGED <<script, lexer, tokens, resolver, classifier, detector>>

\* parser.parse(); swallowed records the lexer errors the parse dropped
ParseAction ==
    /\ parser.phase = "Created"
    /\ LET done(r) == [phase |-> "Done", swallowed |-> r.swallowed,
                       result |-> ParseOutcome(r, extract_metadata(script.text))]
       IN  parser' = done(parse_script(parser.ps))
    /\ UNCHANGED <<script, lexer, tokens, resolver, classifier, detector>>

NextParser == New \/ ParseAction

SpecParser == InitParser /\ [][NextParser]_vars
-----------------------------------------------------------------------------
(* Properties of the parser                                                *)

ParseDone == parser.phase = "Done"

ParseOk == ParseDone /\ parser.result.status = "Ok"

\* the statements of the Script node parse returned
Statements == parser.result.root.statements

\* the argument nodes of a command line whose arguments are the words ws
WordArgs(ws) == [i \in 1..Len(ws) |-> StringNode(ws[i], "Unquoted")]

\* the Command node of a command line made of the words ws
CommandOf(ws) == CommandNode(Head(ws), WordArgs(Tail(ws)), FALSE)

\* every node of the tree under node, node included
RECURSIVE Subnodes(_)
Subnodes(node) ==
    {node} \cup UNION { Subnodes(Children(node)[i]) : i \in DOMAIN Children(node) }

\* C1: a simple command line - a command word, builtin names such as echo
\* included, followed by argument words - parses successfully into a Script
\* with exactly one statement, the Command whose name is the leading word and
\* whose args are the following words in order.
C1_SimpleCommandParses ==
    (ParseDone /\ script.form = "command") =>
        /\ parser.result.status = "Ok"
        /\ Statements = <<CommandOf(script.parts)>>

\* echo hello world has been parsed: a parse error, no Command
C1_Witness ==
    /\ ParseDone
    /\ script.form = "command"
    /\ script.text = Join(<<w_echo, w_hello, w_world>>, SP)
    /\ parser.result.status = "ParseError"

\* C2: NAME=value parses successfully into one Assignment node named NAME
\* whose value is the word after the = and whose export, readonly and local
\* flags are all false.
C2_AssignmentParses ==
    (ParseDone /\ script.form = "assignment") =>
        /\ parser.result.status = "Ok"
        /\ Statements =
             <<AssignmentNode(script.parts[1], StringNode(script.parts[2], "Unquoted"))>>

\* NAME=hello has been parsed: a parse error, no Assignment
C2_Witness ==
    /\ ParseDone
    /\ script.form = "assignment"
    /\ script.text = <<"N","A","M","E","=">> \o w_hello \o NL
    /\ parser.result.status = "ParseError"

\* the flag parse_export, parse_local or parse_readonly sets
FlagOf(keyword) ==
    CASE keyword = w_export   -> "export"
      [] keyword = w_local    -> "local"
      [] keyword = w_readonly -> "readonly"

\* C3: export NAME=value, local NAME=value and readonly NAME=value parse into
\* one Assignment node for NAME with exactly the flag of the keyword set, and
\* after a first line N=v the script has exactly two statements.
C3_FlaggedAssignmentParses ==
    (ParseDone /\ script.form = "flagged") =>
        /\ parser.result.status = "Ok"
        /\ Len(Statements) = (IF script.parts[4] = <<>> THEN 1 ELSE 2)
        /\ Statements[Len(Statements)] =
             [AssignmentNode(script.parts[2], StringNode(script.parts[3], "Unquoted"))
                EXCEPT ![FlagOf(script.parts[1])] = TRUE]

\* export PATH=hello has been parsed: a parse error, no Assignment
C3_Witness ==
    /\ ParseDone
    /\ script.form = "flagged"
    /\ script.text = w_export \o SP \o <<"P","A","T","H","=">> \o w_hello \o NL
    /\ parser.result.status = "ParseError"

\* C4: in every AST parse returns each Pipeline node has at least two
\* elements; a single command yields a Command node, never a Pipeline, and
\* commands joined by pipes yield one Pipeline of exactly these Commands in
\* left-to-right order (a | b | c: three).
C4_PipelineCollapse ==
    ParseOk =>
        /\ \A n \in Subnodes(parser.result.root) :
              n.kind = "Pipeline" => Len(n.commands) >= 2
        /\ script.form = "command" => Statements[1].kind = "Command"
        /\ script.form = "pipeline" =>
              Statements =
                <<IF Len(script.parts) = 1 THEN CommandOf(script.parts[1])
                  ELSE PipelineNode([i \in 1..Len(script.parts) |->
                                        CommandOf(script.parts[i])])>>

\* a | b | c has been parsed into a Pipeline of three
C4_Witness ==
    /\ ParseOk
    /\ script.form = "pipeline"
    /\ Len(script.parts) = 3
    /\ Statements[1].kind = "Pipeline"
    /\ Len(Statements[1].commands) = 3

\* C5: every well-formed script with a balanced construct (if, while, for,
\* brace block, subshell) parses successfully; the construct's sub-parser
\* consumes exactly through its closer, so a statement after the construct
\* is a sibling statement of the Script.
C5_BalancedConstructsParse ==
    (ParseDone /\ script.form = "wellformed") =>
        /\ parser.result.status = "Ok"
        /\ Len(Statements) = (IF script.parts[2] THEN 2 ELSE 1)
        /\ Statements[1].kind = script.parts[1]
        /\ script.parts[2] => Statements[2] = CommandOf(<<<<"d">>>>)

\* if a; then b; fi has been parsed: a parse error
C5_Witness ==
    /\ ParseDone
    /\ script.form = "wellformed"
    /\ script.text = t_if \o <<";", " ">> \o t_then \o <<"b", ";", " ">> \o t_fi \o NL
    /\ parser.result.status = "ParseError"

\* C7: a quoted string left open at the end of the input is a fatal lexer
\* error wherever it occurs (top level, inside a block, after a pipe, after a
\* function header): new/parse returns that LexError, no AST, and the parser
\* does not go on parsing after it.
C7_UnterminatedStringIsFatal ==
    (ParseDone /\ script.form = "unterminated") =>
        /\ parser.result.status = "LexError"
        /\ parser.result.root = NoNode
        /\ parser.swallowed = 0

\* a string left open on the line after { has been parsed: the lexer's error
\* was dropped and a parse error returned
C7_Witness ==
    /\ ParseDone
    /\ script.form = "unterminated"
    /\ script.text = <<"{", "\n", "'", "x">>
    /\ parser.result.status = "ParseError"
    /\ parser.swallowed >= 1

\* C8: for a script whose leading comment block holds @Version, @Author and
\* @Description lines and any number of @Dependency lines, the parse result
\* has version, author and description Some of the trimmed values and the
\* dependencies in source order, one entry per @Dependency line.
C8_HeaderMetadata ==
    (ParseDone /\ script.form = "header") =>
        /\ parser.result.status = "Ok"
        /\ parser.result.metadata.version = Some(script.parts[1])
        /\ parser.result.metadata.author = Some(script.parts[2])
        /\ parser.result.metadata.description = Some(script.parts[3])
        /\ parser.result.metadata.dependencies = script.parts[4]

\* a header with two different @Dependency lines has been extracted
C8_Witness ==
    /\ ParseOk
    /\ script.form = "header"
    /\ Len(script.parts[4]) = 2
    /\ script.parts[4][1] # script.parts[4][2]
    /\ parser.result.metadata.dependencies = script.parts[4]
    /\ parser.result.metadata.author = Some(v_author)

-----------------------------------------------------------------------------
(* The lexer as a state machine: Lexer::new, then next_token until Eof     *)

\* characters of a quoted payload, items of an ANSI-C one
MaxPayload == 3

\* characters of a payload: none is a quote or a backslash
PayloadChars == {"a", "b", " ", "$", "#", "\n"}

QuoteChar(quote_type) ==
    CASE quote_type = "Single"   -> "'"
      [] quote_type = "Double"   -> "\""
      [] quote_type = "Backtick" -> Backquote

\* a payload between single quotes, double quotes or backquotes;
\* parts = <<quote kind, payload>>
QuotedScripts ==
    { Script("quoted", <<q, payload>>,
             <<QuoteChar(q)>> \o payload \o <<QuoteChar(q)>>) :
        q \in {"Single", "Double", "Backtick"},
        payload \in SeqsUpTo(PayloadChars, MaxPayload) }

\* the items of an ANSI-C payload: <<as written, as decoded>>
AnsiItems ==
    { <<<<"a">>, "a">>, <<<<"b">>, "b">>, <<<<"\\", "n">>, "\n">>,
      <<<<"\\", "t">>, "\t">> }

\* $'...': parts = <<"Ansi", decoded payload>>
AnsiScripts ==
    { Script("ansi", <<"Ansi", [i \in DOMAIN items |-> items[i][2]]>>,
             <<"$", "'">> \o Concat([i \in DOMAIN items |-> items[i][1]]) \o <<"'">>) :
        items \in SeqsUpTo(AnsiItems, MaxPayload) \ {<<>>} }

IsLexerScript(sc) ==
    \/ sc \in QuotedScripts
    \/ sc \in AnsiScripts
    \/ sc \in RawScripts

\* what a next_token call that returned Err leaves in the token list
ErrorToken == Tok("LexError")

InitLexer ==
    /\ IsLexerScript(script)
    /\ lexer = [status |-> "Ready", lx |-> LexerNew(script.text)]
    /\ tokens = <<>>
    /\ parser = IdleParser
    /\ resolver = IdleResolver
    /\ classifier = IdleClassifier
    /\ detector = IdleDetector

\* one lexer.next_token() call; the caller stops at Eof
NextToken ==
    /\ lexer.status = "Ready"
    /\ LET take(r) ==
            /\ tokens' = Append(tokens, IF r.ok THEN r.tok ELSE ErrorToken)
            /\ lexer' = [status |-> IF r.ok /\ r.tok.t = "Eof" THEN "AtEof" ELSE "Ready",
                         lx |-> r.lx]
       IN  take(next_token(lexer.lx))
    /\ UNCHANGED <<script, parser, resolver, classifier, detector>>

NextLexer == NextToken

SpecLexer == InitLexer /\ [][NextLexer]_vars

\* C6: lexing a payload without quote or backslash characters wrapped in
\* single quotes, double quotes or backquotes yields one String token carrying
\* exactly that payload tagged Single, Double or Backtick, and lexing an
\* ANSI-C string such as $'a\nb' yields one String token tagged Ansi whose
\* payload is the decoded text (a, line feed, b).
C6_QuoteRoundTrip ==
    (script.form \in {"quoted", "ansi"} /\ tokens # <<>>) =>
        /\ tokens[1] = TokQ("String", script.parts[2], script.parts[1])
        /\ Len(tokens) >= 2 => tokens[2] = Tok("Eof")

\* $'a\nb' has been lexed: the String token holds line feed, b
C6_Witness ==
    /\ script.text = <<"$", "'", "a", "\\", "n", "b", "'">>
    /\ tokens # <<>>
    /\ tokens[1] = TokQ("String", <<"\n", "b">>, "Ansi")

-----------------------------------------------------------------------------
(* The resolver as a state machine: the script is parsed, or an AST is     *)
(* handed over as built, then DependencyResolver::new and resolve          *)

\* command lines of a script given to the resolver
MaxLines == 2
\* commands of an AST built around source commands
MaxSources == 2

ScriptPaths == {<<"s">>, <<"d", "/", "s">>}

\* no file is there
NoFiles == <<>>

Quoted(s) == <<"'">> \o s \o <<"'">>

p_t == <<"p", ".", "t">>
p_url == <<"h", "t", "t", "p", ":", "/", "/", "h">>

\* the paths a script reads and then deletes
ReadWritePaths ==
    { p_t, <<"/", "t", "/", "p">>, <<".", "/", "p">>, n_cat,
      <<"p", ".", "c", "o", "n", "f">> }

\* cat P, then rm P; parts = <<script path, files, P>>
ReadWriteScripts ==
    { Script("read_write", <<sp, NoFiles, p>>,
             n_cat \o SP \o Quoted(p) \o NL \o n_rm \o SP \o Quoted(p) \o NL) :
        sp \in ScriptPaths, p \in ReadWritePaths }

ResolverLines ==
    { n_cat \o SP \o p_t,
      n_cat \o SP \o Quoted(<<".", "/">> \o p_t),
      n_rm \o SP \o p_t,
      n_tail \o SP \o Quoted(<<"-", "f">>) \o SP \o p_t,
      n_cp \o SP \o p_t \o SP \o <<"q">>,
      n_mkdir \o SP \o p_t,
      n_mkdir \o SP \o n_git,
      n_true,
      n_curl \o SP \o Quoted(p_url),
      n_git,
      <<"a">> \o SP \o Quoted(<<"/", "t", "/", "p", " ", ".", "/", "q", " ">> \o p_url),
      <<"{", " ">> \o n_head \o SP \o p_t \o <<" ", "|", " ">> \o n_more \o <<";", " ", "}">> }

\* up to MaxLines command lines under an optional @Dependency header;
\* parts = <<script path, files, lines>>
LineScripts ==
    { Script("lines", <<sp, NoFiles, ls>>,
             header \o Concat([i \in DOMAIN ls |-> ls[i] \o NL])) :
        sp \in ScriptPaths,
        ls \in SeqsUpTo(ResolverLines, MaxLines) \ {<<>>},
        header \in {<<>>, HeaderLine(TagDependency, n_git, SP)} }

f_a == <<"a">>
f_b == <<"b">>

SourceCommand(name, args) == CommandNode(name, args, FALSE)

\* the commands of a built AST: source and . on the files a and b
SourceCommands ==
    { SourceCommand(n_source, <<StringNode(f_a, "Unquoted")>>),
      SourceCommand(n_source, <<StringNode(f_b, "Unquoted")>>),
      SourceCommand(n_dot, <<StringNode(<<".", "/">> \o f_a, "Unquoted")>>),
      SourceCommand(n_source, <<VariableNode(<<"v">>)>>),
      SourceCommand(n_source, <<StringNode(f_a, "DoubleQuoted"),
                                StringNode(<<"/", "t", "/", "p">>, "Unquoted")>>),
      SourceCommand(n_cat, <<StringNode(f_a, "Unquoted")>>) }

\* what a sourced file may hold
SourcedTexts ==
    { n_cat \o SP \o f_b \o NL,
      n_source \o SP \o f_b \o NL,
      n_source \o SP \o f_a \o NL,
      w_ls }

FileStates ==
    {AbsentFile, [exists |-> TRUE, readable |-> FALSE, content |-> <<>>]}
    \cup {[exists |-> TRUE, readable |-> TRUE, content |-> t] : t \in SourcedTexts}

\* the files a and b next to the script
FilesBeside(script_path, file_a, file_b) ==
    LET at(name) ==
            Components(PathJoin(DependencyResolverNew(script_path).script_dir, name))
    IN  [k \in {at(f_a), at(f_b)} |-> IF k = at(f_a) THEN file_a ELSE file_b]

\* an AST of up to MaxSources commands, built by the caller of resolve;
\* parts = <<script path, files, root>>
BuiltScripts ==
    { Script("built", <<sp, FilesBeside(sp, file_a, file_b), ScriptNode(cmds)>>, <<>>) :
        sp \in ScriptPaths,
        file_a \in FileStates, file_b \in FileStates,
        cmds \in SeqsUpTo(SourceCommands, MaxSources) \ {<<>>} }

-----------------------------------------------------------------------------
(* Inclusion chains: the AST sources the first file of a chain, each file  *)
(* of the chain sources the next, the last one reads a data file           *)

\* files of the longest chain
MaxChain == 16

ChainNames ==
    << <<"a">>, <<"b">>, <<"c">>, <<"d">>, <<"e">>, <<"f">>, <<"g">>, <<"h">>,
       <<"i">>, <<"j">>, <<"k">>, <<"l">>, <<"m">>, <<"n">>, <<"o">>, <<"p">>,
       <<"q">>, <<"r">>, <<"s">>, <<"t">> >>

\* what the i-th file of a chain of n files holds
ChainText(i, n) ==
    IF i < n THEN n_source \o SP \o ChainNames[i + 1] \o NL
    ELSE n_cat \o SP \o p_t \o NL

ChainFiles(n) ==
    [k \in {Components(ChainNames[i]) : i \in 1..n} |->
        [exists |-> TRUE, readable |-> TRUE,
         content |-> ChainText(CHOOSE i \in 1..n : Components(ChainNames[i]) = k, n)]]

\* parts = <<script path, files, root, number of files>>; the i-th file of
\* the chain is the one at depth i
ChainScripts ==
    { Script("chain",
             << <<"s">>, ChainFiles(n),
                ScriptNode(<<SourceCommand(n_source,
                                           <<StringNode(ChainNames[1], "Unquoted")>>)>>),
                n >>,
             <<>>) :
        n \in 1..MaxChain }

IsResolverScript(sc) ==
    \/ sc \in ReadWriteScripts
    \/ sc \in LineScripts
    \/ sc \in BuiltScripts
    \/ sc \in ChainScripts

InitResolver ==
    /\ IsResolverScript(script)
    /\ parser = IF script.form \in {"built", "chain"}
                THEN [phase |-> "Done", swallowed |-> 0,
                      result |-> ParseResult("Ok", script.parts[3], DefaultMetadata)]
                ELSE [phase |-> "Start"]
    /\ lexer = IdleLexer
    /\ tokens = <<>>
    /\ resolver = IdleResolver
    /\ classifier = IdleClassifier
    /\ detector = IdleDetector

\* DependencyResolver::new(script_path), once there is an AST
ResolverNew ==
    /\ ParseOk
    /\ resolver.phase = "Idle"
    /\ resolver' = [phase |-> "Created", rs |-> DependencyResolverNew(script.parts[1])]
    /\ UNCHANGED <<script, lexer, tokens, parser, classifier, detector>>

\* resolve is entered: analyze_ast_node(&ast.root, 0) is the call to make
ResolveBegin ==
    /\ resolver.phase = "Created"
    /\ resolver' = [phase |-> "Walking",
                    rs |-> PushCalls(resolver.rs, <<parser.result.root>>, 0)]
    /\ UNCHANGED <<script, lexer, tokens, parser, classifier, detector>>

\* the next analyze_ast_node call; an Err ends resolve
AnalyzeAstNode ==
    /\ resolver.phase = "Walking"
    /\ resolver.rs.stack # <<>>
    /\ LET after(r) ==
            [phase |-> CASE r.status = "Ok" -> "Walking"
                         [] r.status = "Error" -> "Failed"
                         [] r.status = "Panic" -> "Panicked",
             rs |-> r]
           call(frame) ==
            analyze_ast_node([resolver.rs EXCEPT !.stack = Tail(@)],
                             frame.node, frame.depth)
       IN  resolver' = after(call(Head(resolver.rs.stack)))
    /\ UNCHANGED <<script, lexer, tokens, parser, classifier, detector>>

\* the rest of resolve: the metadata dependencies, then the map's values,
\* which come in no particular order
ResolveEnd ==
    /\ resolver.phase = "Walking"
    /\ resolver.rs.stack = <<>>
    /\ LET done(r) ==
            [phase |-> "Done", rs |-> r,
             result |-> {r.dependencies[i] : i \in DOMAIN r.dependencies}]
       IN  resolver' = done(AddMetadataDependencies(resolver.rs,
                                parser.result.metadata.dependencies))
    /\ UNCHANGED <<script, lexer, tokens, parser, classifier, detector>>

NextResolver ==
    \/ New
    \/ ParseAction
    \/ ResolverNew
    \/ ResolveBegin
    \/ AnalyzeAstNode
    \/ ResolveEnd

SpecResolver == InitResolver /\ [][NextResolver]_vars

-----------------------------------------------------------------------------
(* Properties of the resolver                                              *)

ResolverRuns == resolver.phase \in {"Walking", "Done", "Failed", "Panicked"}

ResolveReturned == resolver.phase \in {"Done", "Failed", "Panicked"}

RECURSIVE Sum(_)
Sum(numbers) == IF numbers = <<>> THEN 0 ELSE Head(numbers) + Sum(Tail(numbers))

\* the usages of the sightings of path so far
UsagesOf(path) ==
    LET seen == SelectSeq(resolver.rs.sightings, LAMBDA s : SamePath(s.path, path))
    IN  [i \in DOMAIN seen |-> seen[i].usage]

\* the entry's usage is the sum and the OR of the usages
IsMergeOf(usage, usages) ==
    /\ usages # <<>>
    /\ usage.read_count = Sum([i \in DOMAIN usages |-> usages[i].read_count])
    /\ usage.write_count = Sum([i \in DOMAIN usages |-> usages[i].write_count])
    /\ usage.append_count = Sum([i \in DOMAIN usages |-> usages[i].append_count])
    /\ usage.in_loop = (\E i \in DOMAIN usages : usages[i].in_loop)
    /\ usage.in_condition = (\E i \in DOMAIN usages : usages[i].in_condition)
    /\ usage.is_sourced = (\E i \in DOMAIN usages : usages[i].is_sourced)
    /\ usage.is_monitored = (\E i \in DOMAIN usages : usages[i].is_monitored)

\* the path P of a read_write script, resolved
ReadWritePath == PathJoin(resolver.rs.script_dir, script.parts[3])

\* C9: at every point of a resolve run the dependencies hold at most one
\* Dependency per distinct path, every sighted path has one, and its
\* read_count, write_count and append_count are the sums and its in_loop,
\* in_condition, is_sourced and is_monitored the ORs over the sightings of
\* the path; resolve returns these dependencies; and for a script cat P,
\* rm P it returns exactly one Dependency for P, with read_count = 1 and
\* write_count = 1.
C9_DependencyMerge ==
    ResolverRuns =>
        LET deps == resolver.rs.dependencies
        IN  /\ \A i, j \in DOMAIN deps : SamePath(deps[i].path, deps[j].path) => i = j
            /\ \A k \in DOMAIN resolver.rs.sightings :
                    \E i \in DOMAIN deps :
                        SamePath(deps[i].path, resolver.rs.sightings[k].path)
            /\ \A i \in DOMAIN deps : IsMergeOf(deps[i].usage, UsagesOf(deps[i].path))
            /\ resolver.phase = "Done" =>
                    /\ resolver.result = {deps[i] : i \in DOMAIN deps}
                    /\ Cardinality(resolver.result) = Len(deps)
            /\ (script.form = "read_write" /\ resolver.phase = "Done") =>
                    /\ Cardinality({d \in resolver.result :
                                        SamePath(d.path, ReadWritePath)}) = 1
                    /\ \A d \in resolver.result :
                            SamePath(d.path, ReadWritePath) =>
                                d.usage.read_count = 1 /\ d.usage.write_count = 1

\* cat P, rm P has been resolved: P has a Dependency read once, written once
C9_Witness ==
    /\ script.form = "read_write"
    /\ resolver.phase = "Done"
    /\ \E d \in resolver.result :
            /\ SamePath(d.path, ReadWritePath)
            /\ d.usage.read_count = 1
            /\ d.usage.write_count = 1
            /\ Len(UsagesOf(d.path)) >= 2

\* no two entries of the list are the same path
NoPathTwice(paths) ==
    \A i, j \in DOMAIN paths : SamePath(paths[i], paths[j]) => i = j

\* the analyze_ast_node calls that the call on node amounts to, itself included
RECURSIVE WalkSize(_)
WalkSize(node) ==
    LET calls == IF node.kind = "Command" THEN node.args ELSE WalkedChildren(node)
    IN  1 + Sum([i \in DOMAIN calls |-> WalkSize(calls[i])])

\* the calls that walking the file would add: those of its root, when it can
\* be read and parses
FileWalkSize(file) ==
    IF file.exists /\ file.readable /\ ParseText(file.content).status = "Ok"
    THEN WalkSize(ParseText(file.content).root)
    ELSE 0

RECURSIVE SumOver(_, _)
SumOver(S, size) ==
    IF S = {} THEN 0
    ELSE LET x == CHOOSE x \in S : TRUE
         IN  size[x] + SumOver(S \ {x}, size)

\* what walking each of the files would add
FileWalkSizes == [k \in DOMAIN Files |-> FileWalkSize(Files[k])]

\* the analyze_ast_node calls a run in rs can still make: those on the stack
\* and those of the files not yet visited
CallsLeft(rs, sizes) ==
    Sum([i \in DOMAIN rs.stack |-> WalkSize(rs.stack[i].node)])
    + SumOver(DOMAIN sizes \ rs.visited_sources, sizes)

\* C10: within one resolve run no source path is read twice and none is
\* walked twice, a path that is read or walked is in the visited set by
\* then, and the run terminates whatever the files hold (files that source
\* each other, a file that sources itself): every analyze_ast_node call
\* lowers the number of calls the run can still make, sourced files counted.
C10_SourceCycleGuard ==
    /\ [](ResolverRuns =>
            /\ NoPathTwice(resolver.rs.reads)
            /\ NoPathTwice(resolver.rs.walks)
            /\ \A i \in DOMAIN resolver.rs.reads :
                    Components(resolver.rs.reads[i]) \in resolver.rs.visited_sources
            /\ \A i \in DOMAIN resolver.rs.walks :
                    \E k \in DOMAIN resolver.rs.reads :
                        resolver.rs.reads[k] = resolver.rs.walks[i])
    /\ [][(resolver.phase = "Walking" /\ resolver.rs.stack # <<>>) =>
                CallsLeft(resolver'.rs, FileWalkSizes)
                    < CallsLeft(resolver.rs, FileWalkSizes)]_vars

\* a file has been read once and walked, and a later source of it skipped
C10_Witness ==
    /\ resolver.phase = "Done"
    /\ resolver.rs.skipped >= 1
    /\ Len(resolver.rs.reads) = 1
    /\ Len(resolver.rs.walks) = 1

-----------------------------------------------------------------------------
(* Properties of the resolver: failures                                    *)

\* C11: for an inclusion chain, the root at depth 0 and the i-th file at
\* depth i, resolve returns an error, and no dependency list, exactly when
\* the deepest file of the chain is at a depth greater than 15.
C11_SourceDepthBound ==
    (script.form = "chain" /\ ResolveReturned) =>
        ((resolver.phase = "Failed") <=> (script.parts[4] > max_source_depth))

\* a chain of 16 files has been resolved: the first file was read and did not
\* parse, none was walked, and resolve returned a dependency list
C11_Witness ==
    /\ script.form = "chain"
    /\ script.parts[4] = 16
    /\ resolver.phase = "Done"
    /\ Len(resolver.rs.reads) = 1
    /\ resolver.rs.walks = <<>>
    /\ Cardinality(resolver.result) = 1


\* the commands of the AST given to resolve that read the file a
ReadsOfA ==
    { i \in DOMAIN script.parts[3].statements :
        script.parts[3].statements[i] = SourceCommand(n_cat, <<StringNode(f_a, "Unquoted")>>) }

\* C12: whatever the state of the files named by source and . commands -
\* absent, unreadable, not parsable - resolve returns a dependency list, and
\* the list holds the dependencies of the other statements of the script.
C12_BestEffortSourcing ==
    (script.form = "built" /\ ResolveReturned) =>
        /\ resolver.phase = "Done"
        /\ ReadsOfA # {} =>
              \E d \in resolver.result :
                  SamePath(d.path, resolve_path(resolver.rs, f_a))

\* source b, then cat a, with b an existing file that cannot be read:
\* resolve has returned the read error and no list
C12_Witness ==
    /\ script.form = "built"
    /\ script.parts[3].statements =
         << SourceCommand(n_source, <<StringNode(f_b, "Unquoted")>>),
            SourceCommand(n_cat, <<StringNode(f_a, "Unquoted")>>) >>
    /\ resolver.phase = "Failed"
    /\ FileAt(resolve_path(resolver.rs, f_b)).exists
    /\ ~FileAt(resolve_path(resolver.rs, f_b)).readable


\* the Command nodes of the AST given to resolve
CommandNodes == { node \in Subnodes(parser.result.root) : node.kind = "Command" }

\* the entries of the returned list for the command name, as a binary
BinaryEntries(name) ==
    { d \in resolver.result : SamePath(d.path, name) /\ d.dep_type = "BinaryCommand" }

\* C13: after a successful resolve the list holds, for every Command whose
\* name is not a shell builtin, an entry whose path is the name and whose
\* dep_type is BinaryCommand, whatever commands come before it; the name of a
\* builtin gets no such entry.
C13_BinaryCommandEntries ==
    (script.form = "lines" /\ resolver.phase = "Done") =>
        \A node \in CommandNodes :
            IF is_shell_builtin(node.name)
            THEN BinaryEntries(node.name) = {}
            ELSE BinaryEntries(node.name) # {}

\* mkdir git, then git: the list holds git as a Directory only
C13_Witness ==
    /\ script.form = "lines"
    /\ script.parts[3] = <<n_mkdir \o SP \o n_git, n_git>>
    /\ resolver.phase = "Done"
    /\ BinaryEntries(n_git) = {}
    /\ \E d \in resolver.result : SamePath(d.path, n_git) /\ d.dep_type = "Directory"


-----------------------------------------------------------------------------
(* A resolver used twice: resolve takes &mut self, so a caller may call it *)
(* again on the resolver that has already returned a list                  *)

\* the resolver's state as the first call left it; earlier remembers what
\* that call returned and which files it walked
KeptBySelf(rs, result) ==
    [f \in DOMAIN rs \cup {"earlier"} |->
        CASE f = "earlier" -> [result |-> result, walks |-> rs.walks]
          [] f = "walks" -> <<>>
          [] OTHER -> rs[f]]

\* resolve is entered a second time, with the same AST, on the same resolver
ResolveAgain ==
    /\ resolver.phase = "Done"
    /\ "earlier" \notin DOMAIN resolver.rs
    /\ resolver' = [phase |-> "Walking",
                    rs |-> PushCalls(KeptBySelf(resolver.rs, resolver.result),
                                     <<parser.result.root>>, 0)]
    /\ UNCHANGED <<script, lexer, tokens, parser, classifier, detector>>

NextReuse ==
    \/ New
    \/ ParseAction
    \/ ResolverNew
    \/ ResolveBegin
    \/ AnalyzeAstNode
    \/ ResolveEnd
    \/ ResolveAgain

SpecReuse == InitResolver /\ [][NextReuse]_vars

SecondCallReturned == resolver.phase = "Done" /\ "earlier" \in DOMAIN resolver.rs

\* C14: a resolve call starts from an empty dependency map and an empty
\* visited set: a second call on the same resolver, with the same AST and
\* files, walks the same sourced files and returns the same list as the first.
C14_PerCallFreshness ==
    SecondCallReturned =>
        /\ resolver.result = resolver.rs.earlier.result
        /\ resolver.rs.walks = resolver.rs.earlier.walks

\* the second call has returned without walking the file the first call
\* walked, and its list differs from the first
C14_Witness ==
    /\ SecondCallReturned
    /\ resolver.rs.earlier.walks # <<>>
    /\ resolver.rs.walks = <<>>
    /\ resolver.result # resolver.rs.earlier.result


-----------------------------------------------------------------------------
(* The file classifier (src/resolver/file_classifier.rs)                   *)

\* str::contains, and an unanchored pattern of literals
ContainsText(s, part) == \E i \in 1..(Len(s) + 1) : StartsWithAt(s, i, part)

\* \.(a|b|...)$ : the text ends with a dot and one of the extensions
HasExtension(s, extensions) == \E e \in extensions : EndsWith(s, <<".">> \o e)

SYSTEM_PATH_REGEX(text) ==
    \E prefix \in { <<"/", "p", "r", "o", "c", "/">>,
                    <<"/", "s", "y", "s", "/">>,
                    <<"/", "d", "e", "v", "/">>,
                    <<"/", "t", "m", "p", "/">>,
                    <<"/", "v", "a", "r", "/", "l", "o", "g", "/">>,
                    <<"/", "r", "u", "n", "/">> } :
        StartsWith(text, prefix)

CACHE_PATH_REGEX(text) ==
    \E part \in { <<".", "c", "a", "c", "h", "e", "/">>,
                  <<"/", "c", "a", "c", "h", "e", "/">>,
                  <<".", "l", "o", "c", "a", "l", "/", "t", "m", "p", "/">> } :
        ContainsText(text, part)

SENSITIVE_FILE_REGEX(text) ==
    HasExtension(text, { <<"k", "e", "y">>,
                         <<"p", "e", "m">>,
                         <<"p", "a", "s", "s", "w", "o", "r", "d">>,
                         <<"s", "e", "c", "r", "e", "t">>,
                         <<"t", "o", "k", "e", "n">>,
                         <<"c", "r", "e", "d", "e", "n", "t", "i", "a", "l", "s">> })

PROCESS_FILE_REGEX(text) ==
    HasExtension(text, { <<"p", "i", "d">>,
                         <<"l", "o", "c", "k">>,
                         <<"s", "o", "c", "k">> })

CONFIG_FILE_REGEX(text) ==
    HasExtension(text, { <<"c", "o", "n", "f">>,
                         <<"c", "o", "n", "f", "i", "g">>,
                         <<"c", "f", "g">>,
                         <<"i", "n", "i">>,
                         <<"t", "o", "m", "l">>,
                         <<"y", "a", "m", "l">>,
                         <<"y", "m", "l">>,
                         <<"j", "s", "o", "n">> })

DOC_FILE_REGEX(text) ==
    \E prefix \in { <<"R", "E", "A", "D", "M", "E">>,
                    <<"L", "I", "C", "E", "N", "S", "E">>,
                    <<"C", "O", "P", "Y", "I", "N", "G">>,
                    <<"A", "U", "T", "H", "O", "R", "S">>,
                    <<"C", "H", "A", "N", "G", "E", "L", "O", "G">>,
                    <<"T", "O", "D", "O">>,
                    <<"I", "N", "S", "T", "A", "L", "L">> } :
        StartsWith(text, prefix)

DATA_FILE_REGEX(text) ==
    HasExtension(text, { <<"j", "s", "o", "n">>,
                         <<"y", "a", "m", "l">>,
                         <<"y", "m", "l">>,
                         <<"t", "o", "m", "l">>,
                         <<"x", "m", "l">>,
                         <<"c", "s", "v">>,
                         <<"t", "s", "v">> })

\* Path::file_name: the last component when it is a normal one, None for the
\* empty path, the root, a lone "." and a path that ends in ".."
file_name(path) ==
    LET last(comps) ==
            IF comps = <<>> THEN None
            ELSE IF comps[Len(comps)] \in {<<"/">>, <<".">>, <<".", ".">>} THEN None
            ELSE Some(comps[Len(comps)])
    IN  last(Components(path))

\* path.file_name().and_then(|n| n.to_str()).unwrap_or(""); the paths here
\* are UTF-8 texts, for which to_str is Some and to_string_lossy the text
FileNameOrEmpty(path) == IF file_name(path).some THEN file_name(path).v ELSE <<>>

MiB == 1024 * 1024

\* FileClassifier::default()
FileClassifierDefault == [max_embed_size |-> 50 * MiB]

with_max_size(max_embed_size) == [max_embed_size |-> max_embed_size]

\* FileContext::default()
DefaultContext ==
    [is_local_to_script |-> FALSE, is_modified |-> FALSE, is_monitored |-> FALSE,
     is_sourced |-> FALSE, size |-> None, usage_pattern |-> "Unknown"]

\* a justification: its text and the numbers format! puts into it
Reason(text, numbers) == [text |-> text, numbers |-> numbers]

ReasonSystemPath == Reason("System path - always runtime", <<>>)
ReasonCache == Reason("Cache directory - always runtime", <<>>)
ReasonProcessFile == Reason("Process file (pid/lock/sock) - always runtime", <<>>)
ReasonModified == Reason("File is modified by script - must be runtime", <<>>)
ReasonTooLarge(size, limit) ==
    Reason("File too large ({}MB > {}MB limit)",
           <<(size \div 1024) \div 1024, (limit \div 1024) \div 1024>>)
ReasonSensitive == Reason("Sensitive file (key/password) - never embed", <<>>)
ReasonMonitored ==
    Reason("File is monitored (tail -f/watch) - runtime access required", <<>>)
ReasonEtc == Reason("System configuration in /etc - runtime access", <<>>)
ReasonLocalConfig == Reason("Local configuration file - embed", <<>>)
ReasonDoc == Reason("Documentation file - embed", <<>>)
ReasonSmallData == Reason("Small data file - embed", <<>>)
ReasonMarkdown == Reason("Markdown documentation - embed", <<>>)
ReasonTemplate == Reason("Template file - embed", <<>>)
ReasonLocalSource == Reason("Local sourced script - embed", <<>>)
ReasonContext == Reason("Requires context analysis", <<>>)

\* if let Some(size) = context.size { if size >= self.max_embed_size
TooLargeInclusive(self, context) ==
    context.size.some /\ context.size.v >= self.max_embed_size

\* if let Some(size) = context.size { if size > self.max_embed_size
TooLarge(self, context) ==
    context.size.some /\ context.size.v > self.max_embed_size

is_always_runtime(self, path_str, filename, context) ==
    IF SYSTEM_PATH_REGEX(path_str) THEN Some(ReasonSystemPath)
    ELSE IF CACHE_PATH_REGEX(path_str) THEN Some(ReasonCache)
    ELSE IF PROCESS_FILE_REGEX(filename) THEN Some(ReasonProcessFile)
    ELSE IF context.is_modified THEN Some(ReasonModified)
    ELSE IF TooLarge(self, context)
         THEN Some(ReasonTooLarge(context.size.v, self.max_embed_size))
    ELSE IF SENSITIVE_FILE_REGEX(filename) THEN Some(ReasonSensitive)
    ELSE IF context.is_monitored THEN Some(ReasonMonitored)
    ELSE IF StartsWith(path_str, <<"/", "e", "t", "c", "/">>) /\ ~context.is_local_to_script
         THEN Some(ReasonEtc)
    ELSE None

\* the first rule of is_always_static with the flag negated
LocalConfigNegated(filename, context) ==
    ~context.is_local_to_script /\ CONFIG_FILE_REGEX(filename)

\* if context.is_local_to_script && CONFIG_FILE_REGEX.is_match(filename)
LocalConfig(filename, context) ==
    context.is_local_to_script /\ CONFIG_FILE_REGEX(filename)

is_always_static(self, path_str, filename, context) ==
    IF LocalConfig(filename, context) THEN Some(ReasonLocalConfig)
    ELSE IF DOC_FILE_REGEX(filename) THEN Some(ReasonDoc)
    ELSE IF /\ DATA_FILE_REGEX(filename)
            /\ context.size.some
            /\ context.size.v < 1024 * 1024
         THEN Some(ReasonSmallData)
    ELSE IF EndsWith(filename, <<".", "m", "d">>) THEN Some(ReasonMarkdown)
    ELSE IF \/ ContainsText(filename, <<"t", "e", "m", "p", "l", "a", "t", "e">>)
            \/ EndsWith(filename, <<".", "t", "m", "p", "l">>)
            \/ EndsWith(filename, <<".", "t", "p", "l">>)
         THEN Some(ReasonTemplate)
    ELSE IF context.is_sourced /\ context.is_local_to_script THEN Some(ReasonLocalSource)
    ELSE None

FileInfo(path, classification, reason, size) ==
    [path |-> path, classification |-> classification, reason |-> reason, size |-> size]

\* the last return of classify made Static
FallbackStatic(path, context) == FileInfo(path, "Static", ReasonContext, context.size)

\* the last return of classify: everything else is context-dependent
Fallback(path, context) == FileInfo(path, "ContextDependent", ReasonContext, context.size)

\* classify with the static patterns looked at first
classify_static_first(self, path, context) ==
    LET static == is_always_static(self, path, FileNameOrEmpty(path), context)
        runtime == is_always_runtime(self, path, FileNameOrEmpty(path), context)
    IN  IF static.some THEN FileInfo(path, "Static", static.v, context.size)
        ELSE IF runtime.some THEN FileInfo(path, "Runtime", runtime.v, context.size)
        ELSE Fallback(path, context)

classify(self, path, context) ==
    LET runtime == is_always_runtime(self, path, FileNameOrEmpty(path), context)
        static == is_always_static(self, path, FileNameOrEmpty(path), context)
    IN  IF runtime.some THEN FileInfo(path, "Runtime", runtime.v, context.size)
        ELSE IF static.some THEN FileInfo(path, "Static", static.v, context.size)
        ELSE Fallback(path, context)


-----------------------------------------------------------------------------
(* The classifier as a state machine: a FileClassifier is made, classify   *)
(* is called on a path and a context, and called again on the same ones    *)

p_proc_cpuinfo == <<"/", "p", "r", "o", "c", "/", "c", "p", "u", "i", "n", "f", "o">>
p_tmp_test == <<"/", "t", "m", "p", "/", "t", "e", "s", "t", ".", "t", "x", "t">>
p_run_conf == <<"/", "r", "u", "n", "/", "a", ".", "c", "o", "n", "f">>
p_rel_proc == <<"p", "r", "o", "c", "/", "c", "p", "u", "i", "n", "f", "o">>
p_home_cache == <<"/", "h", "o", "m", "e", "/", "u", "/", ".", "c", "a", "c", "h", "e", "/", "a", ".", "j", "s", "o", "n">>
p_var_cache == <<"/", "v", "a", "r", "/", "c", "a", "c", "h", "e", "/", "a">>
p_rel_cache == <<"c", "a", "c", "h", "e", "/", "a">>
p_app_pid == <<"a", "p", "p", ".", "p", "i", "d">>
p_config_toml == <<"c", "o", "n", "f", "i", "g", ".", "t", "o", "m", "l">>
p_settings_json == <<"s", "e", "t", "t", "i", "n", "g", "s", ".", "j", "s", "o", "n">>
p_readme_key == <<"R", "E", "A", "D", "M", "E", ".", "k", "e", "y">>
p_readme == <<"R", "E", "A", "D", "M", "E">>
p_license == <<"L", "I", "C", "E", "N", "S", "E">>
p_notes_md == <<"n", "o", "t", "e", "s", ".", "m", "d">>
p_data_bin == <<"d", "a", "t", "a", ".", "b", "i", "n">>
p_large_bin == <<"l", "a", "r", "g", "e", ".", "b", "i", "n">>
p_data_csv == <<"d", "a", "t", "a", ".", "c", "s", "v">>
p_id_key == <<"i", "d", ".", "k", "e", "y">>
p_etc_passwd == <<"/", "e", "t", "c", "/", "p", "a", "s", "s", "w", "d">>
p_etc_app_conf == <<"/", "e", "t", "c", "/", "a", "p", "p", ".", "c", "o", "n", "f">>
p_rel_etc_conf == <<"e", "t", "c", "/", "c", "o", "n", "f", "i", "g", ".", "c", "o", "n", "f">>
p_etc == <<"/", "e", "t", "c">>
p_mail_template == <<"m", "a", "i", "l", ".", "t", "e", "m", "p", "l", "a", "t", "e">>
p_a_tmpl == <<"a", ".", "t", "m", "p", "l">>
p_lib_sh == <<"l", "i", "b", ".", "s", "h">>
p_output_txt == <<"o", "u", "t", "p", "u", "t", ".", "t", "x", "t">>
p_empty == <<>>
p_root == <<"/">>
p_up == <<".", ".">>
p_conf_up == <<"a", ".", "c", "o", "n", "f", "/", ".", ".">>
p_json_dir == <<"a", ".", "j", "s", "o", "n", "/">>
p_key == <<"k", "e", "y">>
p_a_keys == <<"a", ".", "k", "e", "y", "s">>

ClassifyPaths ==
    { p_proc_cpuinfo, p_tmp_test, p_run_conf, p_rel_proc, p_home_cache,
      p_var_cache, p_rel_cache, p_app_pid, p_config_toml, p_settings_json,
      p_readme_key, p_readme, p_license, p_notes_md, p_data_bin,
      p_large_bin, p_data_csv, p_id_key, p_etc_passwd, p_etc_app_conf,
      p_rel_etc_conf, p_etc, p_mail_template, p_a_tmpl, p_lib_sh,
      p_output_txt, p_empty, p_root, p_up, p_conf_up,
      p_json_dir, p_key, p_a_keys }

\* the sizes a context may carry, around the thresholds of classify
ContextSizes ==
    { None, Some(0), Some(MiB - 1), Some(MiB), Some(10 * MiB), Some(10 * MiB + 1),
      Some(50 * MiB), Some(50 * MiB + 1), Some(100 * MiB) }

FileContexts ==
    { [is_local_to_script |-> local, is_modified |-> modified,
       is_monitored |-> monitored, is_sourced |-> sourced, size |-> size,
       usage_pattern |-> "Unknown"] :
        local \in BOOLEAN, modified \in BOOLEAN, monitored \in BOOLEAN,
        sourced \in BOOLEAN, size \in ContextSizes }

\* the limits given to with_max_size
EmbedLimits == {0, 10 * MiB}

NoScript == Script("none", <<>>, <<>>)

InitClassifier ==
    /\ script = NoScript
    /\ lexer = IdleLexer
    /\ tokens = <<>>
    /\ parser = IdleParser
    /\ resolver = IdleResolver
    /\ classifier = IdleClassifier
    /\ detector = IdleDetector

\* FileClassifier::new()
FileClassifierNew ==
    /\ classifier.phase = "Idle"
    /\ classifier' = [phase |-> "Created", self |-> FileClassifierDefault, calls |-> <<>>]
    /\ UNCHANGED <<script, lexer, tokens, parser, resolver, detector>>

\* FileClassifier::with_max_size(max_embed_size)
WithMaxSize ==
    /\ classifier.phase = "Idle"
    /\ \E limit \in EmbedLimits :
          classifier' = [phase |-> "Created", self |-> with_max_size(limit), calls |-> <<>>]
    /\ UNCHANGED <<script, lexer, tokens, parser, resolver, detector>>

Call(self, path, context) ==
    [path |-> path, context |-> context, info |-> classify(self, path, context)]

\* classifier.classify(path, &context)
Classify ==
    /\ classifier.phase = "Created"
    /\ classifier.calls = <<>>
    /\ \E path \in ClassifyPaths, context \in FileContexts :
          classifier' = [classifier EXCEPT
                            !.calls = Append(@, Call(classifier.self, path, context))]
    /\ UNCHANGED <<script, lexer, tokens, parser, resolver, detector>>

\* the same call once more: classify takes &self and changes nothing
ClassifyAgain ==
    /\ classifier.phase = "Created"
    /\ Len(classifier.calls) = 1
    /\ LET first == classifier.calls[1]
       IN  classifier' = [classifier EXCEPT
                             !.calls = Append(@, Call(classifier.self, first.path,
                                                      first.context))]
    /\ UNCHANGED <<script, lexer, tokens, parser, resolver, detector>>

\* the largest read, write or append count of a usage
MaxCount == 1

\* FileUsage; commands is not read by the classifier
FileUsages ==
    { [read_count |-> r, write_count |-> w, append_count |-> a, in_loop |-> l,
       in_condition |-> c, is_sourced |-> sourced, is_monitored |-> monitored,
       commands |-> <<>>] :
        r \in 0..MaxCount, w \in 0..MaxCount, a \in 0..MaxCount, l \in BOOLEAN,
        c \in BOOLEAN, sourced \in BOOLEAN, monitored \in BOOLEAN }

\* from_usage with the Append test ahead of the WriteOnly test
from_usage_append_first(usage) ==
    [is_local_to_script |-> FALSE,
     is_modified |-> usage.write_count > 0 \/ usage.append_count > 0,
     is_monitored |-> usage.is_monitored,
     is_sourced |-> usage.is_sourced,
     size |-> None,
     usage_pattern |->
        IF usage.is_monitored THEN "Monitor"
        ELSE IF usage.is_sourced THEN "Source"
        ELSE IF usage.append_count > 0 THEN "Append"
        ELSE IF usage.write_count > 0 /\ usage.read_count = 0 THEN "WriteOnly"
        ELSE IF usage.write_count > 0 /\ usage.read_count > 0 THEN "ReadWrite"
        ELSE IF usage.read_count > 0 THEN "ReadOnly"
        ELSE "Unknown"]

\* FileContext::from_usage(usage)
from_usage(usage) ==
    [is_local_to_script |-> FALSE,
     is_modified |-> usage.write_count > 0 \/ usage.append_count > 0,
     is_monitored |-> usage.is_monitored,
     is_sourced |-> usage.is_sourced,
     size |-> None,
     usage_pattern |->
        IF usage.is_monitored THEN "Monitor"
        ELSE IF usage.is_sourced THEN "Source"
        ELSE IF usage.write_count > 0 /\ usage.read_count = 0 THEN "WriteOnly"
        ELSE IF usage.append_count > 0 THEN "Append"
        ELSE IF usage.write_count > 0 /\ usage.read_count > 0 THEN "ReadWrite"
        ELSE IF usage.read_count > 0 THEN "ReadOnly"
        ELSE "Unknown"]

\* what std::fs::metadata(path) gives: None for Err, Some(len) for Ok
MetadataSizes == { None, Some(0), Some(10 * MiB + 1) }

\* classify_with_usage(path, usage), with the outcome of std::fs::metadata
classify_with_usage(self, path, usage, metadata) ==
    LET context == from_usage(usage)
        sized == IF metadata # None THEN [context EXCEPT !.size = metadata] ELSE context
    IN  [path |-> path, context |-> sized, info |-> classify(self, path, sized),
         usage |-> usage]

\* classifier.classify_with_usage(path, &usage)
ClassifyWithUsage ==
    /\ classifier.phase = "Created"
    /\ classifier.calls = <<>>
    /\ \E path \in ClassifyPaths, usage \in FileUsages, metadata \in MetadataSizes :
          classifier' = [classifier EXCEPT
                            !.calls = Append(@, classify_with_usage(classifier.self, path,
                                                                    usage, metadata))]
    /\ UNCHANGED <<script, lexer, tokens, parser, resolver, detector>>

NextClassifier ==
    \/ FileClassifierNew
    \/ WithMaxSize
    \/ Classify
    \/ ClassifyAgain
    \/ ClassifyWithUsage

SpecClassifier == InitClassifier /\ [][NextClassifier]_vars


-----------------------------------------------------------------------------
(* Properties of the classifier                                            *)

\* the calls of classify made so far
ClassifyCalls == IF classifier.phase = "Created" THEN classifier.calls ELSE <<>>

Minimum(numbers) == CHOOSE n \in numbers : \A m \in numbers : n <= m

\* the always-runtime rules in the order of the specification: system-path
\* prefix, cache-directory pattern, process-artifact suffix, modified flag,
\* over-size, credential suffix, monitored flag, non-local /etc/
RuntimeRuleHolds(k, self, path, context) ==
    CASE k = 1 -> SYSTEM_PATH_REGEX(path)
      [] k = 2 -> CACHE_PATH_REGEX(path)
      [] k = 3 -> PROCESS_FILE_REGEX(FileNameOrEmpty(path))
      [] k = 4 -> context.is_modified
      [] k = 5 -> context.size.some /\ context.size.v > self.max_embed_size
      [] k = 6 -> SENSITIVE_FILE_REGEX(FileNameOrEmpty(path))
      [] k = 7 -> context.is_monitored
      [] k = 8 -> StartsWith(path, <<"/", "e", "t", "c", "/">>) /\ ~context.is_local_to_script

RuntimeRuleText(k) ==
    CASE k = 1 -> ReasonSystemPath.text
      [] k = 2 -> ReasonCache.text
      [] k = 3 -> ReasonProcessFile.text
      [] k = 4 -> ReasonModified.text
      [] k = 5 -> ReasonTooLarge(0, 0).text
      [] k = 6 -> ReasonSensitive.text
      [] k = 7 -> ReasonMonitored.text
      [] k = 8 -> ReasonEtc.text

RuntimeRulesHolding(call) ==
    { k \in 1..8 : RuntimeRuleHolds(k, classifier.self, call.path, call.context) }

StaticRuleHolds(k, path, context) ==
    CASE k = 1 -> context.is_local_to_script /\ CONFIG_FILE_REGEX(FileNameOrEmpty(path))
      [] k = 2 -> DOC_FILE_REGEX(FileNameOrEmpty(path))
      [] k = 3 -> /\ DATA_FILE_REGEX(FileNameOrEmpty(path))
                  /\ context.size.some
                  /\ context.size.v < MiB
      [] k = 4 -> EndsWith(FileNameOrEmpty(path), <<".", "m", "d">>)
      [] k = 5 -> \/ ContainsText(FileNameOrEmpty(path),
                                  <<"t", "e", "m", "p", "l", "a", "t", "e">>)
                  \/ EndsWith(FileNameOrEmpty(path), <<".", "t", "m", "p", "l">>)
                  \/ EndsWith(FileNameOrEmpty(path), <<".", "t", "p", "l">>)
      [] k = 6 -> context.is_sourced /\ context.is_local_to_script

StaticRulesHolding(call) == { k \in 1..6 : StaticRuleHolds(k, call.path, call.context) }

\* C15: whenever an always-runtime rule matches, classify returns Runtime with
\* the justification of the earliest matching rule in the order system path,
\* cache, process file, modified, over-size, credential, monitored, non-local
\* /etc/ - also when a static rule matches; /proc/cpuinfo is Runtime with the
\* system-path justification in every context.
C15_RuntimeRulesFirst ==
    \A i \in DOMAIN ClassifyCalls :
        LET call == ClassifyCalls[i]
        IN  /\ RuntimeRulesHolding(call) # {} =>
                 /\ call.info.classification = "Runtime"
                 /\ call.info.reason.text = RuntimeRuleText(Minimum(RuntimeRulesHolding(call)))
            /\ call.path = p_proc_cpuinfo =>
                 /\ call.info.classification = "Runtime"
                 /\ call.info.reason = ReasonSystemPath

\* a modified local config.toml has been classified Runtime, as modified,
\* although the local-configuration rule matches it
C15_Witness ==
    \E i \in DOMAIN ClassifyCalls :
        LET call == ClassifyCalls[i]
        IN  /\ call.path = p_config_toml
            /\ call.context.is_local_to_script
            /\ call.context.is_modified
            /\ 1 \in StaticRulesHolding(call)
            /\ call.info.classification = "Runtime"
            /\ call.info.reason = ReasonModified

LocalContext == [DefaultContext EXCEPT !.is_local_to_script = TRUE]

\* C17: the /etc rule is given as the justification only for a path that
\* starts with /etc/ in a context that is not local; /etc/passwd in such a
\* context is Runtime; the relative etc/config.conf in the default context
\* made local is ContextDependent.
C17_EtcRule ==
    \A i \in DOMAIN ClassifyCalls :
        LET call == ClassifyCalls[i]
        IN  /\ call.info.reason = ReasonEtc =>
                 /\ StartsWith(call.path, <<"/", "e", "t", "c", "/">>)
                 /\ ~call.context.is_local_to_script
            /\ (call.path = p_etc_passwd /\ ~call.context.is_local_to_script) =>
                 call.info.classification = "Runtime"
            /\ (call.path = p_rel_etc_conf /\ call.context = LocalContext) =>
                 call.info.classification = "ContextDependent"

\* etc/config.conf in the default context made local has been classified
\* Static, as a local configuration file
C17_Witness ==
    \E i \in DOMAIN ClassifyCalls :
        LET call == ClassifyCalls[i]
        IN  /\ call.path = p_rel_etc_conf
            /\ call.context = LocalContext
            /\ call.info.classification = "Static"
            /\ call.info.reason = ReasonLocalConfig


TooLargeText == "File too large ({}MB > {}MB limit)"

\* C18: a known size strictly greater than the classifier's maximum, on a
\* path that no earlier runtime rule matches, gives Runtime with the too-large
\* justification; a size of at most the maximum, or an unknown size, never
\* does; with a maximum of 10 MiB a data.bin of 1 MiB is ContextDependent and
\* a large.bin of 100 MiB is Runtime; the small-data rule makes a file Static
\* only when it is a structured data file of known size strictly below 1 MiB.
C18_SizeThresholds ==
    \A i \in DOMAIN ClassifyCalls :
        LET call == ClassifyCalls[i]
            size == call.context.size
            limit == classifier.self.max_embed_size
        IN  /\ (/\ size.some
                /\ size.v > limit
                /\ RuntimeRulesHolding(call) \cap 1..4 = {}) =>
                   /\ call.info.classification = "Runtime"
                   /\ call.info.reason.text = TooLargeText
            /\ call.info.reason.text = TooLargeText => (size.some /\ size.v > limit)
            /\ (/\ limit = 10 * MiB
                /\ call.path = p_data_bin
                /\ call.context = [DefaultContext EXCEPT !.size = Some(MiB)]) =>
                   call.info.classification = "ContextDependent"
            /\ (/\ limit = 10 * MiB
                /\ call.path = p_large_bin
                /\ call.context = [DefaultContext EXCEPT !.size = Some(100 * MiB)]) =>
                   /\ call.info.classification = "Runtime"
                   /\ call.info.reason.text = TooLargeText
            /\ call.info.reason = ReasonSmallData =>
                   /\ DATA_FILE_REGEX(FileNameOrEmpty(call.path))
                   /\ size.some
                   /\ size.v < MiB

\* with a maximum of 10 MiB, data.bin of one byte more has been classified
\* Runtime as too large (10MB > 10MB in the justification)
C18_Witness ==
    /\ classifier.phase = "Created"
    /\ classifier.self.max_embed_size = 10 * MiB
    /\ \E i \in DOMAIN ClassifyCalls :
        LET call == ClassifyCalls[i]
        IN  /\ call.path = p_data_bin
            /\ call.context = [DefaultContext EXCEPT !.size = Some(10 * MiB + 1)]
            /\ call.info.classification = "Runtime"
            /\ call.info.reason = Reason(TooLargeText, <<10, 10>>)

UsagePatternOf(usage) ==
    LET holds == << usage.is_monitored,
                    usage.is_sourced,
                    usage.write_count > 0 /\ usage.read_count = 0,
                    usage.append_count > 0,
                    usage.write_count > 0 /\ usage.read_count > 0,
                    usage.read_count > 0,
                    TRUE >>
        names == <<"Monitor", "Source", "WriteOnly", "Append", "ReadWrite", "ReadOnly",
                   "Unknown">>
    IN  names[Minimum({ k \in DOMAIN holds : holds[k] })]

\* C22: the context from_usage derives has is_modified exactly when the usage
\* has a write or an append, and the usage pattern is the first on the list
\* Monitor, Source, WriteOnly, Append, ReadWrite, ReadOnly, Unknown whose
\* condition holds; classify_with_usage returns Runtime for every usage with
\* a write or an append.
C22_FromUsage ==
    \A i \in DOMAIN ClassifyCalls :
        LET call == ClassifyCalls[i]
        IN  "usage" \in DOMAIN call =>
              /\ call.context.is_modified
                    <=> (call.usage.write_count > 0 \/ call.usage.append_count > 0)
              /\ call.context.usage_pattern = UsagePatternOf(call.usage)
              /\ call.context.is_monitored = call.usage.is_monitored
              /\ call.context.is_sourced = call.usage.is_sourced
              /\ (call.usage.write_count > 0 \/ call.usage.append_count > 0)
                    => call.info.classification = "Runtime"

\* a usage that writes and appends without reading, on a documentation file
\* the static rules would embed: WriteOnly, and Runtime
C22_Witness ==
    /\ Len(ClassifyCalls) = 1
    /\ "usage" \in DOMAIN ClassifyCalls[1]
    /\ ClassifyCalls[1].path = p_readme
    /\ ClassifyCalls[1].usage.write_count = 1
    /\ ClassifyCalls[1].usage.append_count = 1
    /\ ClassifyCalls[1].usage.read_count = 0
    /\ ~ClassifyCalls[1].usage.is_monitored
    /\ ~ClassifyCalls[1].usage.is_sourced
    /\ ClassifyCalls[1].context.usage_pattern = "WriteOnly"
    /\ ClassifyCalls[1].info.classification = "Runtime"


-----------------------------------------------------------------------------
(* The terminal detector (src/resolver/terminal_detector.rs)               *)

\* the escape character \x1b, one character of a text
ESC == "\\x1b"

\* TerminalFeature: the ten variants of the declaration, and FullTUI, which
\* analyze_command inserts and determine_requirement tests
TerminalFeatures ==
    {"ColorOutput", "CursorControl", "TerminalSize", "RawMode", "AlternateScreen",
     "UserInput", "PasswordInput", "MenuSelection", "ProgressBars", "LiveOutput",
     "FullTUI"}

\* the TerminalAnalysis that analyze starts from
TerminalAnalysisNew ==
    [requirement |-> "None", features_used |-> {}, interactive_commands |-> <<>>,
     tui_indicators |-> <<>>]

Insert(analysis, features) ==
    [analysis EXCEPT !.features_used = @ \cup features]

ContainsAny(content, parts) == \E part \in parts : ContainsText(content, part)

\* analyze_string_content of the detector
terminal_string_content(content, analysis) ==
    LET escapes == ContainsAny(content, { <<ESC, "[">>, <<"\\", "0", "3", "3", "[">>,
                                          <<"\\", "e", "[">> })
        colors == IF escapes THEN {"ColorOutput"} ELSE {}
        screen == IF escapes /\ ContainsAny(content, { <<"?", "1", "0", "4", "9", "h">>,
                                                       <<"?", "1", "0", "4", "9", "l">> })
                  THEN {"AlternateScreen"} ELSE {}
        cursor == IF escapes /\ ContainsAny(content, { <<"H">>, <<"J">>, <<"K">> })
                  THEN {"CursorControl"} ELSE {}
        variables == IF ContainsAny(content, { <<"$", "{", "R", "E", "D", "}">>,
                                               <<"$", "{", "G", "R", "E", "E", "N", "}">>,
                                               <<"$", "{", "B", "L", "U", "E", "}">>,
                                               <<"$", "{", "N", "C", "}">>,
                                               <<"\\", "0", "3", "3", "[", "0", ";", "3">> })
                     THEN {"ColorOutput"} ELSE {}
        size == IF ContainsAny(content, { <<"$", "C", "O", "L", "U", "M", "N", "S">>,
                                          <<"$", "L", "I", "N", "E", "S">>,
                                          <<"$", "(", "t", "p", "u", "t", " ", "c", "o", "l", "s", ")">>,
                                          <<"$", "(", "t", "p", "u", "t", " ", "l", "i", "n", "e", "s", ")">> })
                THEN {"TerminalSize"} ELSE {}
    IN  Insert(analysis, colors \cup screen \cup cursor \cup variables \cup size)

\* an argument is the String s
HasStringArg(args, s) ==
    \E i \in DOMAIN args : args[i].kind = "String" /\ args[i].content = s

\* the match of analyze_command of the detector, its arms in order
terminal_command_match(name, args, analysis) ==
    LET push_interactive(a, text) ==
            [a EXCEPT !.interactive_commands = Append(@, text)]
        push_tui(a) == [a EXCEPT !.tui_indicators = Append(@, name)]
        first_is(words) ==
            args # <<>> /\ args[1].kind = "String" /\ args[1].content \in words
    IN  CASE name = <<"r", "e", "a", "d">> ->
                push_interactive(
                    Insert(analysis,
                           {"UserInput"} \cup IF HasStringArg(args, <<"-", "s">>)
                                              THEN {"PasswordInput"} ELSE {}),
                    name)
          [] name = <<"s", "e", "l", "e", "c", "t">> ->
                push_interactive(Insert(analysis, {"MenuSelection"}), name)
          [] name = <<"t", "p", "u", "t">> ->
                Insert(analysis,
                       {"CursorControl", "ColorOutput"}
                       \cup (IF first_is({ <<"c", "o", "l", "s">>,
                                           <<"l", "i", "n", "e", "s">> }) THEN {"TerminalSize"} ELSE {})
                       \cup (IF first_is({ <<"s", "m", "c", "u", "p">>,
                                           <<"r", "m", "c", "u", "p">> })
                             THEN {"AlternateScreen"} ELSE {}))
          [] name \in { <<"c", "o", "l", "o", "r", "i", "z", "e">>,
                        <<"l", "o", "l", "c", "a", "t">> } -> Insert(analysis, {"ColorOutput"})
          [] name \in { <<"d", "i", "a", "l", "o", "g">>,
                        <<"w", "h", "i", "p", "t", "a", "i", "l">>,
                        <<"z", "e", "n", "i", "t", "y">> } ->
                push_tui(Insert(analysis, {"FullTUI"}))
          [] name \in { <<"l", "e", "s", "s">>, <<"m", "o", "r", "e">>, <<"v", "i", "m">>,
                        <<"v", "i">>, <<"n", "a", "n", "o">>,
                        <<"e", "m", "a", "c", "s">> } ->
                push_tui(Insert(analysis, {"FullTUI"}))
          [] name \in { <<"p", "v">>,
                        <<"p", "r", "o", "g", "r", "e", "s", "s">> } -> Insert(analysis, {"ProgressBars"})
          [] name \in { <<"w", "a", "t", "c", "h">>,
                        <<"t", "a", "i", "l">> } /\ HasStringArg(args, <<"-", "f">>) ->
                push_interactive(Insert(analysis, {"LiveOutput"}), name \o <<" ", "-", "f">>)
          [] name \in { <<"c", "l", "e", "a", "r">>,
                        <<"r", "e", "s", "e", "t">> } -> Insert(analysis, {"CursorControl"})
          [] name = <<"s", "t", "t", "y">> ->
                Insert(analysis,
                       {"RawMode"} \cup IF HasStringArg(args, <<"-", "e", "c", "h", "o">>)
                                        THEN {"PasswordInput"} ELSE {})
          [] OTHER -> analysis

\* analyze_node: the walk of the AST; analyze_command of the detector is the
\* match and then the walk of the arguments
RECURSIVE analyze_node(_, _)
RECURSIVE analyze_nodes(_, _)
analyze_nodes(nodes, analysis) ==
    IF nodes = <<>> THEN analysis
    ELSE analyze_nodes(Tail(nodes), analyze_node(Head(nodes), analysis))

analyze_node(node, analysis) ==
    CASE node.kind = "Command" ->
            analyze_nodes(node.args, terminal_command_match(node.name, node.args, analysis))
      [] node.kind = "String" -> terminal_string_content(node.content, analysis)
      [] OTHER -> analyze_nodes(WalkedChildren(node), analysis)

\* determine_requirement with the second and third test in the other order
determine_requirement_features_first(analysis) ==
    LET used(feature) == feature \in analysis.features_used
    IN  IF used("FullTUI") \/ analysis.tui_indicators # <<>> THEN "FullTUI"
        ELSE IF used("ColorOutput") \/ used("CursorControl") \/ used("TerminalSize")
             THEN "TerminalFeatures"
        ELSE IF \/ used("UserInput") \/ used("MenuSelection")
                \/ used("PasswordInput") \/ used("LiveOutput")
             THEN "Interactive"
        ELSE "None"

determine_requirement(analysis) ==
    LET used(feature) == feature \in analysis.features_used
    IN  IF used("FullTUI") \/ analysis.tui_indicators # <<>> THEN "FullTUI"
        ELSE IF \/ used("UserInput") \/ used("MenuSelection")
                \/ used("PasswordInput") \/ used("LiveOutput")
             THEN "Interactive"
        ELSE IF used("ColorOutput") \/ used("CursorControl") \/ used("TerminalSize")
             THEN "TerminalFeatures"
        ELSE "None"

\* TerminalDetector::analyze(ast)
analyze(root) ==
    LET walked == analyze_node(root, TerminalAnalysisNew)
    IN  [walked EXCEPT !.requirement = determine_requirement(walked)]

-----------------------------------------------------------------------------
(* The detector as a state machine: analyze is called on an AST            *)

\* statements of the longest AST
MaxStatements == 3

Word(text) == StringNode(text, "Unquoted")

DetectorCommands ==
    { CommandNode(<<"r", "e", "a", "d">>, <<Word(<<"-", "s">>), Word(<<"v">>)>>, FALSE),
      CommandNode(<<"s", "e", "l", "e", "c", "t">>, <<>>, FALSE),
      CommandNode(<<"t", "p", "u", "t">>, <<Word(<<"c", "o", "l", "s">>)>>, FALSE),
      CommandNode(<<"t", "p", "u", "t">>, <<Word(<<"s", "m", "c", "u", "p">>)>>, FALSE),
      CommandNode(<<"l", "o", "l", "c", "a", "t">>, <<>>, FALSE),
      CommandNode(<<"d", "i", "a", "l", "o", "g">>, <<>>, FALSE),
      CommandNode(<<"l", "e", "s", "s">>, <<Word(<<"v">>)>>, FALSE),
      CommandNode(<<"p", "v">>, <<>>, FALSE),
      CommandNode(<<"t", "a", "i", "l">>, <<Word(<<"-", "f">>), Word(<<"v">>)>>, FALSE),
      CommandNode(<<"t", "a", "i", "l">>, <<Word(<<"v">>)>>, FALSE),
      CommandNode(<<"w", "a", "t", "c", "h">>, <<Word(<<"v">>)>>, FALSE),
      CommandNode(<<"w", "a", "t", "c", "h">>, <<Word(<<"-", "f">>), Word(<<"v">>)>>, FALSE),
      CommandNode(<<"c", "l", "e", "a", "r">>, <<>>, FALSE),
      CommandNode(<<"s", "t", "t", "y">>, <<Word(<<"-", "e", "c", "h", "o">>)>>, FALSE),
      CommandNode(<<"s", "t", "t", "y">>, <<Word(<<"r", "a", "w">>)>>, FALSE),
      CommandNode(<<"e", "c", "h", "o">>, <<StringNode(<<ESC, "[", "?", "1", "0", "4", "9", "h">>,
                                        "DoubleQuoted")>>, FALSE),
      CommandNode(<<"e", "c", "h", "o">>, <<StringNode(<<"$", "C", "O", "L", "U", "M", "N", "S">>, "DoubleQuoted")>>, FALSE),
      CommandNode(<<"l", "s">>, <<>>, FALSE) }

\* an AST of up to MaxStatements commands; parts = <<root>>
DetectorScripts ==
    { Script("detect", <<ScriptNode(cmds)>>, <<>>) :
        cmds \in SeqsUpTo(DetectorCommands, MaxStatements) }

InitDetector ==
    /\ script \in DetectorScripts
    /\ lexer = IdleLexer
    /\ tokens = <<>>
    /\ parser = IdleParser
    /\ resolver = IdleResolver
    /\ classifier = IdleClassifier
    /\ detector = IdleDetector

\* TerminalDetector::analyze(&ast)
Analyze ==
    /\ detector.phase = "Idle"
    /\ detector' = [phase |-> "Done", analysis |-> analyze(script.parts[1])]
    /\ UNCHANGED <<script, lexer, tokens, parser, resolver, classifier>>

NextDetector == Analyze

SpecDetector == InitDetector /\ [][NextDetector]_vars

-----------------------------------------------------------------------------
(* Properties of the detector                                              *)

\* C20: the requirement of an analysis is FullTUI if the FullTUI feature is in
\* the feature set or the list of TUI indicators is not empty; otherwise
\* Interactive if UserInput, MenuSelection, PasswordInput or LiveOutput is in
\* the set; otherwise TerminalFeatures if ColorOutput, CursorControl or
\* TerminalSize is; otherwise None.
C20_RequirementLevels ==
    detector.phase = "Done" =>
        LET features == detector.analysis.features_used
            level ==
                IF "FullTUI" \in features \/ Len(detector.analysis.tui_indicators) > 0
                THEN "FullTUI"
                ELSE IF features \cap {"UserInput", "MenuSelection", "PasswordInput",
                                       "LiveOutput"} # {}
                     THEN "Interactive"
                ELSE IF features \cap {"ColorOutput", "CursorControl", "TerminalSize"} # {}
                     THEN "TerminalFeatures"
                ELSE "None"
        IN  /\ features \subseteq TerminalFeatures
            /\ detector.analysis.requirement = level

\* an AST of stty and pv has been analysed: the features are RawMode and
\* ProgressBars and the requirement is None
C20_Witness ==
    /\ detector.phase = "Done"
    /\ detector.analysis.features_used = {"RawMode", "ProgressBars"}
    /\ detector.analysis.tui_indicators = <<>>
    /\ detector.analysis.requirement = "None"


-----------------------------------------------------------------------------
(* The detector after the parser: a script text is parsed and the AST      *)
(* given to TerminalDetector::analyze, as the detector's tests do          *)

t_read == <<"r", "e", "a", "d">>
t_tail == <<"t", "a", "i", "l">>
t_watch == <<"w", "a", "t", "c", "h">>
t_dash_s == <<"-", "s">>
t_dash_f == <<"-", "f">>

TerminalLines ==
    { t_read \o SP \o t_dash_s \o SP \o <<"P">>,
      t_read \o SP \o <<"N">>,
      t_tail \o SP \o t_dash_f \o SP \o <<"v">>,
      t_tail \o SP \o <<"v">>,
      t_watch \o SP \o <<"v">>,
      <<"t", "p", "u", "t">> \o SP \o <<"c", "o", "l", "s">>,
      <<"s", "t", "t", "y">> \o SP \o <<"r", "a", "w">>,
      <<"d", "i", "a", "l", "o", "g">>,
      n_less \o SP \o <<"v">>,
      <<"p", "v">> \o SP \o <<"v">>,
      <<"c", "l", "e", "a", "r">>,
      w_ls \o SP \o <<"v">> }

\* up to MaxLines lines, each ended by a line feed; parts = <<lines>>
TerminalScripts ==
    { Script("terminal", <<ls>>, Concat([i \in DOMAIN ls |-> ls[i] \o NL])) :
        ls \in SeqsUpTo(TerminalLines, MaxLines) \ {<<>>} }

InitAnalysis ==
    /\ script \in TerminalScripts
    /\ parser = [phase |-> "Start"]
    /\ lexer = IdleLexer
    /\ tokens = <<>>
    /\ resolver = IdleResolver
    /\ classifier = IdleClassifier
    /\ detector = IdleDetector

\* TerminalDetector::analyze(&ast) on the AST parse returned
AnalyzeParsed ==
    /\ ParseOk
    /\ detector.phase = "Idle"
    /\ detector' = [phase |-> "Done", analysis |-> analyze(parser.result.root)]
    /\ UNCHANGED <<script, lexer, tokens, parser, resolver, classifier>>

NextAnalysis ==
    \/ New
    \/ ParseAction
    \/ AnalyzeParsed

SpecAnalysis == InitAnalysis /\ [][NextAnalysis]_vars

\* the script has the line
HasLine(line) == \E i \in DOMAIN script.parts[1] : script.parts[1][i] = line

\* the script has a line that starts with the word
HasLineOf(word) ==
    \E i \in DOMAIN script.parts[1] : StartsWith(script.parts[1][i], word \o SP)

\* C21: a script with a read line and no TUI program parses and its analysis
\* holds UserInput and has the requirement Interactive; it holds
\* PasswordInput when the read has -s and not when no read has it.
C21_ReadIsInteractive ==
    (/\ script.form = "terminal"
     /\ ParseDone
     /\ HasLineOf(t_read)
     /\ ~HasLine(<<"d", "i", "a", "l", "o", "g">>)
     /\ ~HasLineOf(n_less)) =>
        /\ ParseOk
        /\ detector.phase = "Done" =>
              /\ "UserInput" \in detector.analysis.features_used
              /\ "PasswordInput" \in detector.analysis.features_used
                    <=> HasLine(t_read \o SP \o t_dash_s \o SP \o <<"P">>)
              /\ detector.analysis.requirement = "Interactive"

\* read -s P has been given to the parser: a parse error, nothing to analyse
C21_Witness ==
    /\ script.form = "terminal"
    /\ script.parts[1] = << t_read \o SP \o t_dash_s \o SP \o <<"P">> >>
    /\ ParseDone
    /\ parser.result.status = "ParseError"
    /\ detector.phase = "Idle"


-----------------------------------------------------------------------------
(* Assignment syntax and the look-ahead of parse_command_or_assignment      *)

\* the parse returned a Script that holds an Assignment statement
ParsedAnAssignment ==
    /\ ParseOk
    /\ \E i \in DOMAIN parser.result.root.statements :
          parser.result.root.statements[i].kind = "Assignment"

\* C23: a name is parsed as an Assignment only when the = or += follows its
\* last character at once; a name with a blank before the operator is never
\* parsed as an Assignment node.
C23_AssignmentNeedsNoSpace ==
    (script.form = "spaced" /\ ParsedAnAssignment) => script.parts[2] = <<>>

\* N =v was parsed: one Assignment of v to N
C23_Witness ==
    /\ script.form = "spaced"
    /\ script.text = <<"N", " ", "=", "v", "\n">>
    /\ ParseOk
    /\ parser.result.root.statements = <<AssignmentNode(<<"N">>, Word(<<"v">>))>>


-----------------------------------------------------------------------------
(* The header block of extract_metadata                                     *)

\* the metadata of the text's first line alone
LeadMetadata ==
    IF script.parts[1] THEN [DefaultMetadata EXCEPT !.version = Some(<<"1">>)]
    ELSE DefaultMetadata

\* the metadata once the tag comment of the text has been taken as well
TagMetadata ==
    CASE script.parts[3] = "Version" -> [LeadMetadata EXCEPT !.version = Some(<<"2">>)]
      [] script.parts[3] = "Author" -> [LeadMetadata EXCEPT !.author = Some(<<"a">>)]
      [] script.parts[3] = "Description" ->
            [LeadMetadata EXCEPT !.description = Some(<<"d">>)]
      [] script.parts[3] = "Dependency" ->
            [LeadMetadata EXCEPT !.dependencies = <<<<"g", "i", "t">>>>]
      [] script.parts[3] = "Key" ->
            [LeadMetadata EXCEPT !.headers = MapInsert(<<>>, <<"K", "e", "y">>, <<"v">>)]

\* C24 as stated: a tag comment after a blank line or after a statement does
\* not change the metadata.
C24_StopsAtBlankLine ==
    (script.form = "late" /\ ParseOk /\ script.parts[2] # "none")
        => parser.result.metadata = LeadMetadata

\* C24: the scan of the header passes over blank lines and stops at the first
\* line that is neither blank nor a comment: a tag comment after blank lines
\* sets its field, a tag comment after a statement does not change the
\* metadata.
C24_StopsAtStatement ==
    (script.form = "late" /\ ParseDone) =>
        /\ ParseOk
        /\ parser.result.metadata =
              IF script.parts[2] \in {"statement", "both"} THEN LeadMetadata
              ELSE TagMetadata

\* a version comment after a blank line has replaced the version of the
\* first line
C24_Witness ==
    /\ script.form = "late"
    /\ script.parts = <<TRUE, "blank", "Version">>
    /\ ParseOk
    /\ parser.result.metadata.version = Some(<<"2">>)


-----------------------------------------------------------------------------
(* The shebang of extract_metadata                                          *)

\* C25: the metadata of a text whose first line begins with #! has that
\* first line, without its line terminator, as shebang; the metadata of any
\* other text has none.
C25_Shebang ==
    (script.form = "shebang" /\ ParseOk) =>
        parser.result.metadata.shebang =
            IF StartsWith(script.parts[1], <<"#", "!">>) THEN Some(script.parts[1])
            ELSE None

\* the text #!/bin/sh with no line feed was parsed: no shebang
C25_Witness ==
    /\ script.form = "shebang"
    /\ script.text = <<"#", "!", "/", "b", "i", "n", "/", "s", "h">>
    /\ ParseOk
    /\ parser.result.metadata.shebang = None


-----------------------------------------------------------------------------
(* The @Dependency entries of the metadata in the result of resolve         *)

\* no two entries of the result have the same path
OneEntryPerPath ==
    \A d, e \in resolver.result : SamePath(d.path, e.path) => d = e

\* C26: after resolve every name of the metadata's @Dependency entries has an
\* entry of type BinaryCommand in the result, whatever the walk recorded for
\* the same path, and no path has two entries.
C26_MetadataDependencies ==
    (script.form = "lines" /\ resolver.phase = "Done") =>
        /\ \A i \in DOMAIN parser.result.metadata.dependencies :
              BinaryEntries(parser.result.metadata.dependencies[i]) # {}
        /\ OneEntryPerPath

\* the header names git and the walk recorded git as the directory mkdir
\* makes: the one entry for git is a Directory
C26_Witness ==
    /\ script.form = "lines"
    /\ script.parts[3] = <<n_mkdir \o SP \o n_git>>
    /\ resolver.phase = "Done"
    /\ parser.result.metadata.dependencies = <<n_git>>
    /\ BinaryEntries(n_git) = {}
    /\ \E d \in resolver.result : SamePath(d.path, n_git) /\ d.dep_type = "Directory"


-----------------------------------------------------------------------------
(* Live monitoring in the terminal detector                                 *)

\* the statements of the analysed script that are live-monitoring commands:
\* watch, and tail with an argument -f
LiveCommands ==
    LET statements == script.parts[1].statements
        follows(args) == \E k \in DOMAIN args : args[k] = Word(t_dash_f)
    IN  { i \in DOMAIN statements :
            \/ statements[i].name = t_watch
            \/ statements[i].name = t_tail /\ follows(statements[i].args) }

\* C27: the analysis has the LiveOutput feature exactly when the script has a
\* Command named watch or a Command named tail with an argument -f, and with
\* such a command and no TUI program the requirement is Interactive.
C27_LiveMonitoring ==
    (script.form = "detect" /\ detector.phase = "Done") =>
        /\ "LiveOutput" \in detector.analysis.features_used <=> LiveCommands # {}
        /\ (LiveCommands # {} /\ detector.analysis.requirement # "FullTUI")
              => detector.analysis.requirement = "Interactive"

\* watch v alone has been analysed: no feature, no requirement
C27_Witness ==
    /\ script.form = "detect"
    /\ script.parts[1] = ScriptNode(<<CommandNode(t_watch, <<Word(<<"v">>)>>, FALSE)>>)
    /\ detector.phase = "Done"
    /\ detector.analysis.features_used = {}
    /\ detector.analysis.requirement = "None"


-----------------------------------------------------------------------------
(* Statement dispatch of parse_statement for break, continue, return, exit  *)

\* C28: a statement whose leading word is break, continue, return or exit
\* parses to the Break, Continue, Return or Exit node, and never to a Command
\* node named by the word.
C28_StatementDispatch ==
    (script.form = "control" /\ ParseDone) =>
        /\ ParseOk
        /\ Len(parser.result.root.statements) = 1
        /\ parser.result.root.statements[1].kind = script.parts[1]
        /\ \A i \in DOMAIN parser.result.root.statements :
              parser.result.root.statements[i].kind # "Command"

\* break on a line of its own was parsed: a Command named break, no argument
C28_Witness ==
    /\ script.form = "control"
    /\ script.parts[1] = "Break"
    /\ ParseOk
    /\ parser.result.root.statements = <<CommandNode(ControlWords.Break, <<>>, FALSE)>>


-----------------------------------------------------------------------------
(* Progress of the lexer: next_token called over and over on one text       *)

\* the longest text, and the calls made on a text
MaxText == 3
MaxCalls == MaxText + 2

\* a letter, a digit, an operator, a blank, a line feed, a comment sign, a
\* quote, and a letter and a sign outside ASCII
ProgressChars == {"a", "1", "=", " ", "\n", "#", "'", EAcute, Euro}

ProgressScripts ==
    { Script("progress", <<>>, text) : text \in SeqsUpTo(ProgressChars, MaxText) }

InitProgress ==
    /\ script \in ProgressScripts
    /\ lexer = [status |-> "Ready", lx |-> LexerNew(script.text), before |-> 1]
    /\ tokens = <<>>
    /\ parser = IdleParser
    /\ resolver = IdleResolver
    /\ classifier = IdleClassifier
    /\ detector = IdleDetector

\* one lexer.next_token() call, also after Eof or an error; before keeps the
\* position the call started from
NextTokenCall ==
    /\ lexer.status \in {"Ready", "AtEof"}
    /\ Len(tokens) < MaxCalls
    /\ LET take(r) ==
            /\ tokens' = Append(tokens, IF r.ok THEN r.tok ELSE ErrorToken)
            /\ lexer' = [status |-> IF r.ok /\ r.tok.t = "Eof" THEN "AtEof" ELSE "Ready",
                         lx |-> r.lx, before |-> lexer.lx.position]
       IN  take(next_token(lexer.lx))
    /\ UNCHANGED <<script, parser, resolver, classifier, detector>>

NextProgress == NextTokenCall

SpecProgress == InitProgress /\ [][NextProgress]_vars

\* C29: every next_token call consumes at least one character of the input
\* or returns Eof or an error; once Eof has been returned every later call
\* returns Eof; and Eof is returned within as many calls as the text has
\* characters, and one.
C29_LexerProgress ==
    script.form = "progress" =>
        /\ tokens # <<>> =>
              \/ lexer.lx.position > lexer.before
              \/ tokens[Len(tokens)].t = "Eof"
              \/ tokens[Len(tokens)] = ErrorToken
        /\ \A i, j \in DOMAIN tokens :
              (i < j /\ tokens[i].t = "Eof") => tokens[j].t = "Eof"
        /\ Len(tokens) > Len(script.text) =>
              \E i \in DOMAIN tokens : tokens[i].t = "Eof"

\* on the text of the one letter outside ASCII two calls have each returned
\* the empty Word and the lexer is where it started
C29_Witness ==
    /\ script.form = "progress"
    /\ script.text = <<EAcute>>
    /\ tokens = <<TokS("Word", <<>>), TokS("Word", <<>>)>>
    /\ lexer.lx.position = 1
    /\ lexer.before = 1


-----------------------------------------------------------------------------
(* The offset of the assignment look-ahead                                  *)

\* C30: the offset at which parse_command_or_assignment slices the text never
\* exceeds the length of the text, so parse returns an AST or an error and
\* never aborts; the text ls with no line feed parses into one Command with
\* no arguments.
C30_ParseNeverAborts ==
    ParseDone =>
        /\ parser.result.status \in {"Ok", "ParseError", "LexError"}
        /\ script.text = w_ls =>
              /\ ParseOk
              /\ parser.result.root.statements = <<CommandNode(w_ls, <<>>, FALSE)>>

\* the text ls with no line feed was given to parse: the slice starts past
\* the end of the text and the parse aborts, no AST and no error value
C30_Witness ==
    /\ script.form = "command"
    /\ script.text = w_ls
    /\ ParseDone
    /\ parser.result.status = "Panic"
    /\ parser.result.root = NoNode

=============================================================================
